---- MODULE Spec2Model ----
(***************************************************************************)
(* Model of the transcript reconciliation engine of speecher               *)
(* (src/src/speacher/transcription.py): process_transcription_result, the  *)
(* format classifier, and the four provider handlers with their renderer   *)
(* and file sink.                                                          *)
(*                                                                         *)
(* Conventions.  A text is a sequence of one-character strings.  A time is *)
(* a whole number of milliseconds; NoTime stands for a missing key.  An    *)
(* AWS item says whether its times are JSON strings ("0.0") or JSON        *)
(* numbers (0.0): Python's truthiness tells them apart.  The console holds *)
(* the transcript lines a handler prints; its banner lines are left out.   *)
(***************************************************************************)
EXTENDS Integers, Sequences, FiniteSets, TLC

\* ------------------------------------------------------------------ bounds
MaxItems == 3
MaxSegs == 2
MaxPhrases == 2
MaxResults == 2
MaxTime == 4
TicksPerSecond == 2
rate_limit == 2

NoTime == 0 - 1

\* ------------------------------------------------------------------ text
Terminators == {".", "!", "?", ",", ";", ":", "-"}

Whitespace == {" "}

Upper(c) ==
    CASE c = "h" -> "H"
      [] c = "i" -> "I"
      [] c = "a" -> "A"
      [] OTHER -> c

RECURSIVE JoinSpace(_)
JoinSpace(elements) ==
    IF elements = <<>> THEN <<>>
    ELSE IF Len(elements) = 1 THEN elements[1]
    ELSE elements[1] \o <<" ">> \o JoinSpace(Tail(elements))

RECURSIVE SplitFrom(_, _, _)
SplitFrom(text, k, cur) ==
    IF k > Len(text) THEN (IF cur = <<>> THEN <<>> ELSE <<cur>>)
    ELSE IF text[k] \in Whitespace
         THEN (IF cur = <<>> THEN <<>> ELSE <<cur>>) \o SplitFrom(text, k + 1, <<>>)
         ELSE SplitFrom(text, k + 1, Append(cur, text[k]))

SplitWs(text) == SplitFrom(text, 1, <<>>)

Capitalize(text) ==
    IF text # <<>> THEN <<Upper(text[1])>> \o Tail(text) ELSE text

Terminate(text) ==
    IF text # <<>> /\ text[Len(text)] \notin Terminators
    THEN Append(text, ".") ELSE text

FormatText(elements) ==
    Terminate(Capitalize(JoinSpace(SplitWs(JoinSpace(elements)))))

\* ------------------------------------------------------------------ AWS items
\* item.get("start_time") used as a condition: a missing key, and the number
\* 0.0, are false; a non-empty string such as "0.0" is true.
Truthy(t, numeric) == t # NoTime /\ ~(numeric /\ t = 0)

IsPunct(item) == item.type = "punctuation"

\* item.get("alternatives") is true: the key is there and the list is not empty
HasAlt(item) == item.alt = "present"

Timed(item) ==
    Truthy(item.start_time, item.numeric) /\ Truthy(item.end_time, item.numeric)

Within(item, segment) ==
    segment.start_time <= item.start_time /\ item.end_time <= segment.end_time

\* list.index: the first position holding an equal element
IndexOf(items, item) ==
    CHOOSE j \in 1..Len(items) : items[j] = item /\ \A k \in 1..(j - 1) : items[k] # item

\* list.sort(key=start_time): stable insertion sort
RECURSIVE InsertByStart(_, _)
InsertByStart(sorted, x) ==
    IF sorted = <<>> THEN <<x>>
    ELSE IF sorted[Len(sorted)].start_time <= x.start_time THEN Append(sorted, x)
    ELSE Append(InsertByStart(SubSeq(sorted, 1, Len(sorted) - 1), x), sorted[Len(sorted)])

RECURSIVE SortByStart(_)
SortByStart(s) ==
    IF s = <<>> THEN <<>>
    ELSE InsertByStart(SortByStart(SubSeq(s, 1, Len(s) - 1)), s[Len(s)])

\* ------------------------------------------------------------------ tier 1
\* An exception inside a tier aborts the handler: the tier's result carries
\* raised = TRUE and no segments.
Raised == [raised |-> TRUE, elems |-> <<>>]

SegmentItems(items, segment) ==
    SortByStart(SelectSeq(items,
        LAMBDA item : ~IsPunct(item) /\ Timed(item) /\ Within(item, segment)))

\* The position whose successor is inspected for punctuation.
LookupIndex(items, segment_item) == IndexOf(items, segment_item)

RECURSIVE Tier1Elements(_, _, _)
Tier1Elements(items, segment_items, k) ==
    IF k > Len(segment_items) THEN [raised |-> FALSE, elems |-> <<>>]
    ELSE LET segment_item == segment_items[k]
             rest == Tier1Elements(items, segment_items, k + 1)
             item_index == LookupIndex(items, segment_item)
             hasPunct == item_index + 1 <= Len(items) /\ IsPunct(items[item_index + 1])
         IN  IF ~HasAlt(segment_item) THEN rest
             ELSE IF hasPunct /\ ~HasAlt(items[item_index + 1]) THEN Raised
             ELSE IF rest.raised THEN Raised
             ELSE [raised |-> FALSE,
                   elems |-> <<segment_item.content \o
                                (IF hasPunct THEN items[item_index + 1].content ELSE <<>>)>>
                             \o rest.elems]

RECURSIVE Tier1Segments(_, _, _)
Tier1Segments(segments, k, items) ==
    IF k > Len(segments) THEN [raised |-> FALSE, segs |-> <<>>]
    ELSE LET segment == segments[k]
             t == Tier1Elements(items, SegmentItems(items, segment), 1)
             rest == Tier1Segments(segments, k + 1, items)
         IN  IF t.raised \/ rest.raised THEN [raised |-> TRUE, segs |-> <<>>]
             ELSE IF t.elems # <<>>
             THEN [raised |-> FALSE,
                   segs |-> <<[speaker |-> segment.speaker_label,
                               text |-> FormatText(t.elems),
                               start_time |-> segment.start_time,
                               end_time |-> segment.end_time]>> \o rest.segs]
             ELSE rest

\* ------------------------------------------------------------------ tier 2
AppendToLast(elems, more) ==
    [elems EXCEPT ![Len(elems)] = elems[Len(elems)] \o more]

\* the tests of start_time and end_time made tests of the keys' presence
RECURSIVE Tier2ItemsByPresence(_, _, _, _)
Tier2ItemsByPresence(items, i, segment, cur) ==
    IF i > Len(items) THEN [raised |-> FALSE, elems |-> cur]
    ELSE LET item == items[i]
             hasPunct == i + 1 <= Len(items) /\ IsPunct(items[i + 1])
         IN  IF item.start_time = NoTime /\ IsPunct(item)
             THEN IF cur # <<>>
                  THEN IF ~HasAlt(item) THEN Raised
                       ELSE Tier2ItemsByPresence(items, i + 1, segment,
                                                 AppendToLast(cur, item.content))
                  ELSE Tier2ItemsByPresence(items, i + 1, segment, cur)
             ELSE IF item.start_time = NoTime \/ item.end_time = NoTime
             THEN Tier2ItemsByPresence(items, i + 1, segment, cur)
             ELSE IF Within(item, segment) /\ HasAlt(item)
             THEN IF hasPunct /\ ~HasAlt(items[i + 1]) THEN Raised
                  ELSE Tier2ItemsByPresence(items, i + 1, segment,
                           Append(cur, item.content \o
                               (IF hasPunct THEN items[i + 1].content ELSE <<>>)))
             ELSE Tier2ItemsByPresence(items, i + 1, segment, cur)

RECURSIVE Tier2Items(_, _, _, _)
Tier2Items(items, i, segment, cur) ==
    IF i > Len(items) THEN [raised |-> FALSE, elems |-> cur]
    ELSE LET item == items[i]
             hasPunct == i + 1 <= Len(items) /\ IsPunct(items[i + 1])
         IN  IF ~Truthy(item.start_time, item.numeric) /\ IsPunct(item)
             THEN IF cur # <<>>
                  THEN IF ~HasAlt(item) THEN Raised
                       ELSE Tier2Items(items, i + 1, segment,
                                       AppendToLast(cur, item.content))
                  ELSE Tier2Items(items, i + 1, segment, cur)
             ELSE IF ~Timed(item)
             THEN Tier2Items(items, i + 1, segment, cur)
             ELSE IF Within(item, segment) /\ HasAlt(item)
             THEN IF hasPunct /\ ~HasAlt(items[i + 1]) THEN Raised
                  ELSE Tier2Items(items, i + 1, segment,
                           Append(cur, item.content \o
                               (IF hasPunct THEN items[i + 1].content ELSE <<>>)))
             ELSE Tier2Items(items, i + 1, segment, cur)

Tier2Flush(st) ==
    Append(st.out, [speaker |-> st.speaker, text |-> FormatText(st.elems),
                    start_time |-> st.start_time, end_time |-> st.end_time])

RECURSIVE Tier2Segments(_, _, _, _)
Tier2Segments(segments, k, items, st) ==
    IF k > Len(segments)
    THEN [raised |-> FALSE,
          segs |-> IF st.hasSpeaker /\ st.elems # <<>> THEN Tier2Flush(st) ELSE st.out]
    ELSE LET segment == segments[k]
             flush == st.hasSpeaker /\ st.speaker # segment.speaker_label /\ st.elems # <<>>
             t == Tier2Items(items, 1, segment, IF flush THEN <<>> ELSE st.elems)
         IN  IF t.raised THEN [raised |-> TRUE, segs |-> <<>>]
             ELSE Tier2Segments(segments, k + 1, items,
                      [hasSpeaker |-> TRUE,
                       speaker |-> segment.speaker_label,
                       elems |-> t.elems,
                       start_time |-> IF st.start_time = NoTime
                                      THEN segment.start_time ELSE st.start_time,
                       end_time |-> segment.end_time,
                       out |-> IF flush THEN Tier2Flush(st) ELSE st.out])

Tier2Start ==
    [hasSpeaker |-> FALSE, speaker |-> "", elems |-> <<>>,
     start_time |-> NoTime, end_time |-> NoTime, out |-> <<>>]

\* ------------------------------------------------------------------ tier 3
\* the punctuation items left out
RECURSIVE AllWordsNoPunctuation(_, _, _)
AllWordsNoPunctuation(items, i, all_words) ==
    IF i > Len(items) THEN all_words
    ELSE IF ~HasAlt(items[i]) \/ IsPunct(items[i])
    THEN AllWordsNoPunctuation(items, i + 1, all_words)
    ELSE AllWordsNoPunctuation(items, i + 1, Append(all_words, items[i].content))

RECURSIVE AllWords(_, _, _)
AllWords(items, i, all_words) ==
    IF i > Len(items) THEN all_words
    ELSE LET item == items[i]
         IN  IF ~HasAlt(item) THEN AllWords(items, i + 1, all_words)
             ELSE IF IsPunct(item)
             THEN AllWords(items, i + 1,
                      IF all_words # <<>> THEN AppendToLast(all_words, item.content)
                      ELSE all_words)
             ELSE AllWords(items, i + 1, Append(all_words, item.content))

Tier3Segments(items) ==
    LET all_words == AllWords(items, 1, <<>>)
    IN  IF all_words # <<>>
        THEN <<[speaker |-> "Speaker", text |-> FormatText(all_words),
                start_time |-> 0, end_time |-> 0]>>
        ELSE <<>>

\* ------------------------------------------------------------------ rendering
\* A line is [ts, speaker, text]: ts holds the numbers printed inside the
\* brackets (empty: no bracketed prefix), speaker is "" for a line without
\* a "<speaker>: " prefix.

\* f"[{minutes:02d}:{seconds:06.3f}]" with minutes = start // 60
FormatMS(t) == <<t \div 60000, (t % 60000) \div 1000, t % 1000>>

\* f"{hours:02d}:{minutes:02d}:{seconds:06.3f}"
FormatHMS(t) == <<t \div 3600000, (t % 3600000) \div 60000, (t % 60000) \div 1000, t % 1000>>

\* the include_timestamps test left out
SpeakerLineStamped(segment, timestamps) ==
    [ts |-> FormatMS(segment.start_time), speaker |-> segment.speaker, text |-> segment.text]

SpeakerLine(segment, timestamps) ==
    [ts |-> IF timestamps THEN FormatMS(segment.start_time) ELSE <<>>,
     speaker |-> segment.speaker, text |-> segment.text]

IntervalLine(start_time, end_time, text) ==
    [ts |-> FormatHMS(start_time) \o FormatHMS(end_time), speaker |-> "", text |-> text]

PlainLine(text) == [ts |-> <<>>, speaker |-> "", text |-> text]

RECURSIVE SpeakerLines(_, _)
SpeakerLines(segments, timestamps) ==
    IF segments = <<>> THEN <<>>
    ELSE <<SpeakerLine(Head(segments), timestamps)>> \o SpeakerLines(Tail(segments), timestamps)

\* ------------------------------------------------------------------ AWS simple
\* float(item.get("start_time", 0))
TimeOrZero(t) == IF t = NoTime THEN 0 ELSE t

RECURSIVE SimpleItemLines(_, _)
SimpleItemLines(items, i) ==
    IF i > Len(items) THEN [raised |-> FALSE, lines |-> <<>>]
    ELSE LET item == items[i]
             rest == SimpleItemLines(items, i + 1)
         IN  IF item.type # "pronunciation" THEN rest
             \* item.get("alternatives", [{}])[0] on an empty list
             ELSE IF item.alt = "empty" \/ rest.raised THEN [raised |-> TRUE, lines |-> <<>>]
             ELSE [raised |-> FALSE,
                   lines |-> <<IntervalLine(TimeOrZero(item.start_time),
                                            TimeOrZero(item.end_time),
                                            IF HasAlt(item) THEN item.content ELSE <<>>)>>
                             \o rest.lines]

SimpleLines(p, timestamps) ==
    IF timestamps /\ p.items # <<>>
    THEN SimpleItemLines(p.items, 1)
    ELSE [raised |-> FALSE, lines |-> <<PlainLine(p.transcripts[1].transcript)>>]

\* ------------------------------------------------------------------ Azure
\* offset / 10000000: 100 ns ticks to seconds, kept here in milliseconds
TicksToMs(ticks) == ticks \div 10000

RECURSIVE CombinedLines(_)
CombinedLines(phrases) ==
    IF phrases = <<>> THEN <<>>
    ELSE <<PlainLine(Head(phrases).display)>> \o CombinedLines(Tail(phrases))

\* the recognitionStatus test left out
RECURSIVE RecognizedLinesAnyStatus(_, _)
RecognizedLinesAnyStatus(phrases, timestamps) ==
    IF phrases = <<>> THEN <<>>
    ELSE LET phrase == Head(phrases)
             rest == RecognizedLinesAnyStatus(Tail(phrases), timestamps)
         IN  IF phrase.nBest # <<>>
             THEN <<IF timestamps
                    THEN IntervalLine(TicksToMs(phrase.offset),
                                      TicksToMs(phrase.offset) + TicksToMs(phrase.duration),
                                      phrase.nBest[1].display)
                    ELSE PlainLine(phrase.nBest[1].display)>> \o rest
             ELSE rest

RECURSIVE RecognizedLines(_, _)
RecognizedLines(phrases, timestamps) ==
    IF phrases = <<>> THEN <<>>
    ELSE LET phrase == Head(phrases)
             rest == RecognizedLines(Tail(phrases), timestamps)
             text == phrase.nBest[1].display
             start_time == TicksToMs(phrase.offset)
             end_time == TicksToMs(phrase.offset) + TicksToMs(phrase.duration)
         IN  IF phrase.recognitionStatus = "Success" /\ phrase.nBest # <<>>
             THEN <<IF timestamps THEN IntervalLine(start_time, end_time, text)
                    ELSE PlainLine(text)>> \o rest
             ELSE rest

\* recognizedPhrases looked at before combinedRecognizedPhrases
AzureLinesRecognizedFirst(p, timestamps) ==
    IF p.recognized # <<>> THEN RecognizedLines(p.recognized, timestamps)
    ELSE IF p.combined # <<>> THEN CombinedLines(p.combined)
    ELSE <<>>

AzureLines(p, timestamps) ==
    IF p.combined # <<>> THEN CombinedLines(p.combined)
    ELSE IF p.recognized # <<>> THEN RecognizedLines(p.recognized, timestamps)
    ELSE <<>>

\* ------------------------------------------------------------------ GCP
Digit(c) ==
    CASE c = "0" -> 0 [] c = "1" -> 1 [] c = "2" -> 2 [] c = "3" -> 3 [] c = "4" -> 4
      [] c = "5" -> 5 [] c = "6" -> 6 [] c = "7" -> 7 [] c = "8" -> 8 [] c = "9" -> 9

RECURSIVE ParseDigits(_, _)
ParseDigits(chars, acc) ==
    IF chars = <<>> THEN acc ELSE ParseDigits(Tail(chars), acc * 10 + Digit(Head(chars)))

RECURSIVE RStrip(_, _)
RStrip(chars, c) ==
    IF chars # <<>> /\ chars[Len(chars)] = c
    THEN RStrip(SubSeq(chars, 1, Len(chars) - 1), c) ELSE chars

\* float("<whole>.<fraction>") in milliseconds, the fraction read to 3 places
ParseFloatMs(chars) ==
    LET dots == {k \in 1..Len(chars) : chars[k] = "."}
        dot == IF dots = {} THEN Len(chars) + 1 ELSE CHOOSE k \in dots : TRUE
        whole == ParseDigits(SubSeq(chars, 1, dot - 1), 0)
        frac == SubSeq(chars, dot + 1, Len(chars))
        padded == SubSeq(frac \o <<"0", "0", "0">>, 1, 3)
    IN  whole * 1000 + ParseDigits(padded, 0)

\* the nanos of a {seconds, nanos} pair left out
GcpTimeWholeSeconds(t) ==
    CASE t.enc = "dict" -> t.seconds * 1000
      [] t.enc = "str" -> ParseFloatMs(RStrip(t.chars, "s"))
      [] OTHER -> t.seconds * 1000

\* startTime / endTime: {seconds, nanos}, or "<seconds>s", or a number
GcpTimeMs(t) ==
    CASE t.enc = "dict" -> t.seconds * 1000 + t.nanos \div 1000000
      [] t.enc = "str" -> ParseFloatMs(RStrip(t.chars, "s"))
      [] OTHER -> t.seconds * 1000

RECURSIVE WordLines(_)
WordLines(words) ==
    IF words = <<>> THEN <<>>
    ELSE LET word_info == Head(words)
         IN  <<IntervalLine(GcpTimeMs(word_info.startTime), GcpTimeMs(word_info.endTime),
                            word_info.word)>> \o WordLines(Tail(words))

\* the len(words) < len(transcript.split()) test left out
RECURSIVE GcpLinesNoFallback(_, _)
GcpLinesNoFallback(results, timestamps) ==
    IF results = <<>> THEN <<>>
    ELSE LET result == Head(results)
             rest == GcpLinesNoFallback(Tail(results), timestamps)
             alternative == result.alternatives[1]
         IN  IF result.alternatives = <<>> THEN rest
             ELSE IF timestamps /\ alternative.hasWords
             THEN WordLines(alternative.words) \o rest
             ELSE <<PlainLine(alternative.transcript)>> \o rest

RECURSIVE GcpLines(_, _)
GcpLines(results, timestamps) ==
    IF results = <<>> THEN <<>>
    ELSE LET result == Head(results)
             rest == GcpLines(Tail(results), timestamps)
             alternative == result.alternatives[1]
         IN  IF result.alternatives = <<>> THEN rest
             ELSE IF timestamps /\ alternative.hasWords
             THEN IF Len(alternative.words) < Len(SplitWs(alternative.transcript))
                  THEN <<PlainLine(alternative.transcript)>> \o rest
                  ELSE WordLines(alternative.words) \o rest
             ELSE <<PlainLine(alternative.transcript)>> \o rest

\* ------------------------------------------------------------------ payloads
Hi == <<"h", "i">>
HiA == <<"h", "i", " ", "a">>

Word(content, start_time, end_time, alt, numeric) ==
    [type |-> "pronunciation", content |-> content, start_time |-> start_time,
     end_time |-> end_time, alt |-> alt, numeric |-> numeric]

Punct(content, start_time, end_time, alt) ==
    [type |-> "punctuation", content |-> content, start_time |-> start_time,
     end_time |-> end_time, alt |-> alt, numeric |-> FALSE]

Dot == Punct(<<".">>, NoTime, NoTime, "present")

ItemSet ==
    {Word(Hi, 0, 400, "present", FALSE),
     Word(Hi, 0, 400, "present", TRUE),
     Word(<<"a">>, 1000, 2000, "present", FALSE),
     Word(<<>>, 0, 400, "present", FALSE),
     Word(Hi, 0, 400, "missing", FALSE),
     Dot,
     Punct(<<".">>, NoTime, NoTime, "missing"),
     Punct(<<",">>, 1000, 2000, "present")}

Segment(speaker_label, start_time, end_time) ==
    [speaker_label |-> speaker_label, start_time |-> start_time, end_time |-> end_time]

SegSet ==
    {Segment("spk_0", 0, 1000), Segment("spk_1", 1000, 2000), Segment("spk_0", 0, 2000)}

SeqsUpTo(S, n) == UNION {[1..k -> S] : k \in 0..n}

\* A mapping with none of the keys the classifier looks at, e.g. {"invalid": "data"}.
\* items and transcripts are empty when the key is missing or holds an empty list:
\* the code reads both through .get and cannot tell the two apart.
Base ==
    [kind |-> "Dict",
     hasRecognized |-> FALSE, recognized |-> <<>>,
     hasCombined |-> FALSE, combined |-> <<>>,
     resultsKind |-> "absent", gcp |-> <<>>,
     speakerLabels |-> "absent", segments |-> <<>>,
     items |-> <<>>, transcripts |-> <<>>]

AwsPayload(items, segments) ==
    [Base EXCEPT !.resultsKind = "dict", !.speakerLabels = "segments",
                 !.segments = segments, !.items = items]

AwsPayloads ==
    {AwsPayload(items, segments) :
        items \in SeqsUpTo(ItemSet, MaxItems) \ {<<>>}, segments \in SeqsUpTo(SegSet, MaxSegs)}

SampleItemLists ==
    {<<Word(Hi, 0, 400, "present", TRUE), Dot>>,
     <<Word(Hi, 0, 400, "present", FALSE), Dot, Word(<<"a">>, 1000, 2000, "present", FALSE)>>,
     <<Punct(<<",">>, 1000, 2000, "present")>>,
     <<Dot>>,
     <<Word(Hi, 0, 400, "present", FALSE), Punct(<<".">>, NoTime, NoTime, "missing")>>,
     <<Word(<<"a">>, 3661000, 3662000, "present", FALSE)>>}

SampleSegLists ==
    {<<>>,
     <<Segment("spk_0", 0, 1000)>>,
     <<Segment("spk_1", 1000, 2000), Segment("spk_0", 0, 1000)>>,
     <<Segment("spk_1", 3661000, 3662000)>>}

Transcript(text) == [transcript |-> text]

AwsSamples ==
    {AwsPayload(items, segments) : items \in SampleItemLists, segments \in SampleSegLists}
    \cup {[AwsPayload(items, <<>>) EXCEPT !.speakerLabels = "nosegments"] :
            items \in {<<Dot>>}}
    \cup {[AwsPayload(items, <<Segment("spk_0", 0, 1000)>>)
             EXCEPT !.transcripts = <<Transcript(Hi)>>] :
            items \in {<<Word(Hi, 0, 400, "present", FALSE), Dot>>}}

SimplePayloads ==
    {[Base EXCEPT !.resultsKind = "dict", !.speakerLabels = labels,
                  !.items = items, !.transcripts = transcripts] :
        labels \in {"absent", "empty"},
        items \in {<<>>,
                   <<Word(Hi, 0, 400, "present", FALSE), Dot>>,
                   <<Dot>>,
                   <<Word(Hi, NoTime, NoTime, "missing", FALSE)>>,
                   <<Word(Hi, 0, 400, "empty", FALSE)>>},
        transcripts \in {<<>>, <<Transcript(HiA)>>}}
    \cup {[Base EXCEPT !.resultsKind = "dict", !.speakerLabels = "segments",
                       !.segments = <<Segment("spk_0", 0, 1000)>>,
                       !.transcripts = <<Transcript(HiA)>>]}

Combined(display) == [display |-> display]

CombinedSet == {Combined(<<"H", "i", ".">>), Combined(<<>>)}

Recognized(status, nBest, offset, duration) ==
    [recognitionStatus |-> status, nBest |-> nBest, offset |-> offset, duration |-> duration]

RecognizedSet ==
    {Recognized("Success", <<Combined(<<"A", ".">>), Combined(Hi)>>, 10000000, 5000000),
     Recognized("Success", <<Combined(Hi)>>, 610000000, 5000000),
     Recognized("Failed", <<Combined(<<"A", ".">>)>>, 0, 0),
     Recognized("Success", <<>>, 0, 0)}

AzurePayloads ==
    {[Base EXCEPT !.hasCombined = TRUE, !.combined = combined,
                  !.hasRecognized = hasRecognized,
                  !.recognized = recognized] :
        combined \in SeqsUpTo(CombinedSet, MaxPhrases),
        hasRecognized \in {TRUE},
        recognized \in SeqsUpTo(RecognizedSet, MaxPhrases)}
    \cup {[Base EXCEPT !.hasRecognized = TRUE, !.recognized = recognized] :
            recognized \in SeqsUpTo(RecognizedSet, MaxPhrases)}
    \cup {[Base EXCEPT !.hasCombined = TRUE, !.combined = combined] :
            combined \in SeqsUpTo(CombinedSet, MaxPhrases)}

GcpWord(word, startTime, endTime) ==
    [word |-> word, startTime |-> startTime, endTime |-> endTime]

PairTime(seconds, nanos) == [enc |-> "dict", seconds |-> seconds, nanos |-> nanos, chars |-> <<>>]
StringTime(chars) == [enc |-> "str", seconds |-> 0, nanos |-> 0, chars |-> chars]
NumberTime(seconds) == [enc |-> "number", seconds |-> seconds, nanos |-> 0, chars |-> <<>>]

Alternative(transcript, hasWords, words) ==
    [transcript |-> transcript, hasWords |-> hasWords, words |-> words]

GcpResult(alternatives) == [alternatives |-> alternatives]

GcpResultSet ==
    {GcpResult(<<Alternative(HiA, TRUE,
         <<GcpWord(Hi, PairTime(0, 0), PairTime(0, 400000000)),
           GcpWord(<<"a">>, StringTime(<<"1", ".", "5", "s">>), StringTime(<<"2", "s">>))>>)>>),
     GcpResult(<<Alternative(Hi, TRUE, <<>>)>>),
     GcpResult(<<Alternative(Hi, FALSE, <<>>),
                 Alternative(<<"a">>, TRUE, <<GcpWord(<<"a">>, NumberTime(1), NumberTime(2))>>)>>),
     GcpResult(<<Alternative(<<>>, FALSE, <<>>)>>),
     GcpResult(<<>>)}

GcpPayloads ==
    {[Base EXCEPT !.resultsKind = "list", !.gcp = results] :
        results \in SeqsUpTo(GcpResultSet, MaxResults)}

\* The two encodings of one instant, given in whole milliseconds.
DigitChar(d) ==
    CASE d = 0 -> "0" [] d = 1 -> "1" [] d = 2 -> "2" [] d = 3 -> "3" [] d = 4 -> "4"
      [] d = 5 -> "5" [] d = 6 -> "6" [] d = 7 -> "7" [] d = 8 -> "8" [] d = 9 -> "9"

RECURSIVE NatChars(_)
NatChars(n) ==
    IF n < 10 THEN <<DigitChar(n)>> ELSE Append(NatChars(n \div 10), DigitChar(n % 10))

Millis(ms) == <<DigitChar(ms \div 100), DigitChar((ms \div 10) % 10), DigitChar(ms % 10)>>

\* "<seconds>.<mmm>s", and the same with the trailing zeros not written ("1.5s", "2s")
LongString(instant) ==
    StringTime(NatChars(instant \div 1000) \o <<".">> \o Millis(instant % 1000) \o <<"s">>)

ShortString(instant) ==
    StringTime(Append(RStrip(RStrip(NatChars(instant \div 1000) \o <<".">>
                                        \o Millis(instant % 1000), "0"), "."), "s"))

Pair(instant) == PairTime(instant \div 1000, (instant % 1000) * 1000000)

Instants ==
    {seconds * 1000 + ms : seconds \in {0, 1, 59, 60, 3599, 3600, 3661},
                           ms \in {0, 1, 10, 400, 500, 999}}

A == <<"a">>

TimeString(instant, long) == IF long THEN LongString(instant) ELSE ShortString(instant)

\* One result of two words: the first timed by pairs, the second by strings.
GcpTimePayloads ==
    {[Base EXCEPT !.resultsKind = "list",
                  !.gcp = <<GcpResult(<<Alternative(HiA, TRUE,
                                <<GcpWord(Hi, Pair(start), Pair(start + length)),
                                  GcpWord(A, TimeString(start, longStart),
                                             TimeString(start + length, longEnd))>>)>>)>>] :
        start \in Instants, length \in {0, 1500}, longStart \in BOOLEAN, longEnd \in BOOLEAN}

\* Neither a provider shape nor, for the first five, a non-empty mapping.
OtherPayloads ==
    {[Base EXCEPT !.kind = kind] :
        kind \in {"None", "EmptyDict", "EmptyList", "List", "Number", "Unboolable"}}
    \cup {Base,
          [Base EXCEPT !.resultsKind = "other"],
          [Base EXCEPT !.resultsKind = "dict"],
          [Base EXCEPT !.resultsKind = "dict", !.speakerLabels = "empty", !.items = <<Dot>>],
          [Base EXCEPT !.resultsKind = "dict", !.speakerLabels = "segments"]}

\* A mapping that carries the keys of two providers at once.
MixedPayloads ==
    {[p EXCEPT !.hasRecognized = TRUE, !.recognized = recognized] :
        p \in {[Base EXCEPT !.resultsKind = "list",
                            !.gcp = <<GcpResult(<<Alternative(Hi, FALSE, <<>>)>>)>>],
               [Base EXCEPT !.resultsKind = "dict", !.transcripts = <<Transcript(HiA)>>]},
        recognized \in {<<>>, <<Recognized("Success", <<Combined(<<"A", ".">>)>>, 0, 0)>>}}

Payloads ==
    AwsSamples \cup SimplePayloads \cup AzurePayloads \cup GcpPayloads
        \cup OtherPayloads \cup MixedPayloads

\* ------------------------------------------------------------------ state
VARIABLES
    payload,                \* transcription_data
    include_timestamps,     \* argument of the call
    output_file,            \* "none", or a path that is "good", "unopenable", "unwritable"
    pc,                     \* position of the call
    handler,                \* the handler running, "" in process_transcription_result
    invoked,                \* handlers invoked by this call, in order
    classified,             \* the format tests (line 39 on) have been reached
    tiers,                  \* tiers run by this call: [tier, produced], in order
    chronological_segments,
    transcript_lines,
    console,                \* transcript lines printed by this call
    file,                   \* the file at the "good" / "unwritable" path
    exc,                    \* the exception in flight, "" if none
    ret,                    \* the value returned (meaningful when pc = "done")
    outcome,                \* the return statement reached
    prev,                   \* arguments and results of the previous call
    handles,                \* file handles this process holds open
    enable_diarization,     \* argument of process_transcription_data
    result,                 \* what process_transcription_data returned
    now,                    \* time.time(), in ticks
    client_message_times,   \* WebSocketManager: per client, the times kept
    processed,              \* per client, the times process_message was called at
    last,                   \* per client, the last rate-limited call
    active_connections,     \* WebSocketManager: the client ids with a socket
    transcribers,           \* WebSocketManager: the client ids with a transcriber
    streaming,              \* per client, the position of handle_websocket_streaming
    reason                  \* per client, how its handler ended

vars ==
    <<payload, include_timestamps, output_file, pc, handler, invoked, classified, tiers,
      chronological_segments, transcript_lines, console, file, exc, ret, outcome, prev,
      handles, enable_diarization, result, now, client_message_times, processed, last,
      active_connections, transcribers, streaming, reason>>

\* The state of the transcript engine, and that of the backend around it.
engineVars ==
    <<payload, include_timestamps, output_file, pc, handler, invoked, classified, tiers,
      chronological_segments, transcript_lines, console, file, exc, ret, outcome, prev,
      handles>>

backendVars == <<enable_diarization, result>>

rateVars == <<now, client_message_times, processed, last>>

wsVars == <<active_connections, transcribers, streaming, reason>>

serverVars == <<backendVars, rateVars, wsVars>>

Clients == {"c1", "c2"}

NoResult == [returned |-> FALSE, transcript |-> <<>>, speakers |-> <<>>, duration |-> 0]

NoCall ==
    [called |-> FALSE, time |-> 0, ret |-> "", full |-> FALSE, counted |-> FALSE,
     handled |-> FALSE]

\* A fresh WebSocketManager.
ManagerIdle ==
    /\ now = 0
    /\ client_message_times = [c \in Clients |-> <<>>]
    /\ processed = [c \in Clients |-> <<>>]
    /\ last = [c \in Clients |-> NoCall]
    /\ active_connections = {}
    /\ transcribers = {}
    /\ streaming = [c \in Clients |-> "idle"]
    /\ reason = [c \in Clients |-> ""]

\* A fresh WebSocketManager, and no call of process_transcription_data yet.
ServerIdle ==
    /\ enable_diarization = FALSE
    /\ result = NoResult
    /\ ManagerIdle

OutputFiles == {"none", "good", "unopenable", "unwritable"}

NoFile == [exists |-> FALSE, lines |-> <<>>]

NoPrev ==
    [called |-> FALSE, include_timestamps |-> FALSE, output_file |-> "none",
     ret |-> FALSE, console |-> <<>>, file |-> NoFile, outcome |-> ""]

Fresh ==
    /\ handler = ""
    /\ invoked = <<>>
    /\ classified = FALSE
    /\ tiers = <<>>
    /\ chronological_segments = <<>>
    /\ transcript_lines = <<>>
    /\ console = <<>>
    /\ exc = ""
    /\ ret = FALSE
    /\ outcome = ""

Init ==
    /\ payload \in Payloads
    /\ include_timestamps = TRUE
    /\ output_file = "none"
    /\ pc = "idle"
    /\ file = NoFile
    /\ prev = NoPrev
    /\ handles = 0
    /\ Fresh
    /\ ServerIdle

\* The state right after a call on an AWS payload with speaker labels and items.
InitAws ==
    /\ payload \in AwsPayloads
    /\ include_timestamps = TRUE
    /\ output_file = "none"
    /\ pc = "dispatch"
    /\ file = NoFile
    /\ prev = NoPrev
    /\ handles = 0
    /\ Fresh
    /\ ServerIdle

\* The state right after a call on a GCP payload with the times of its words in
\* both encodings.
InitGcpTime ==
    /\ payload \in GcpTimePayloads
    /\ include_timestamps = TRUE
    /\ output_file = "none"
    /\ pc = "dispatch"
    /\ file = NoFile
    /\ prev = NoPrev
    /\ handles = 0
    /\ Fresh
    /\ ServerIdle

\* ------------------------------------------------------------------ the call
Call(timestamps, out) ==
    /\ pc \in {"idle", "done"}
    /\ include_timestamps' = timestamps
    /\ output_file' = out
    /\ pc' = "dispatch"
    /\ prev' = IF pc = "done"
               THEN [called |-> TRUE, include_timestamps |-> include_timestamps,
                     output_file |-> output_file, ret |-> ret, console |-> console,
                     file |-> file, outcome |-> outcome]
               ELSE prev
    /\ handler' = ""
    /\ invoked' = <<>>
    /\ classified' = FALSE
    /\ tiers' = <<>>
    /\ chronological_segments' = <<>>
    /\ transcript_lines' = <<>>
    /\ console' = <<>>
    /\ exc' = ""
    /\ ret' = FALSE
    /\ outcome' = ""
    /\ UNCHANGED <<payload, file, handles>>
    /\ UNCHANGED serverVars

Return(value, site) ==
    /\ pc' = "done"
    /\ ret' = value
    /\ outcome' = site

Raise(e) ==
    /\ pc' = "raised"
    /\ exc' = e
    /\ UNCHANGED <<ret, outcome>>

\* ------------------------------------------------------------------ classifier
\* the isinstance(transcription_data, dict) test left out
ValidateTruthOnly(p) ==
    IF p.kind = "Unboolable" THEN "raises"
    ELSE IF p.kind \in {"None", "EmptyDict", "EmptyList"} THEN "empty"
    ELSE "ok"

Validate(p) ==
    IF p.kind = "Unboolable" THEN "raises"
    ELSE IF p.kind \in {"None", "EmptyDict", "EmptyList"} THEN "empty"
    ELSE IF p.kind # "Dict" THEN "invalid"
    ELSE "ok"

SpeakerLabelsTruthy(p) == p.speakerLabels \in {"nosegments", "segments"}

\* the "results" tests made before the Azure test
ClassifyResultsFirst(p) ==
    IF p.resultsKind = "list" THEN "gcp"
    ELSE IF p.resultsKind = "dict" /\ SpeakerLabelsTruthy(p) /\ p.items # <<>>
    THEN "aws_speakers"
    ELSE IF p.resultsKind = "dict" /\ p.transcripts # <<>> THEN "aws_simple"
    ELSE IF p.hasRecognized \/ p.hasCombined THEN "azure"
    ELSE IF p.resultsKind = "dict" THEN "unknown_aws"
    ELSE IF p.resultsKind = "other" THEN "unknown_results"
    ELSE "unknown_format"

Classify(p) ==
    IF p.hasRecognized \/ p.hasCombined THEN "azure"
    ELSE IF p.resultsKind # "absent"
    THEN IF p.resultsKind = "list" THEN "gcp"
         ELSE IF p.resultsKind = "dict"
         THEN IF SpeakerLabelsTruthy(p) /\ p.items # <<>> THEN "aws_speakers"
              ELSE IF p.transcripts # <<>> THEN "aws_simple"
              ELSE "unknown_aws"
         ELSE "unknown_results"
    ELSE "unknown_format"

Handlers == {"azure", "gcp", "aws_speakers", "aws_simple"}

Dispatch ==
    /\ pc = "dispatch"
    /\ LET v == Validate(payload)
           c == Classify(payload)
       IN  IF v = "raises"
           THEN Raise("ValueError") /\ UNCHANGED <<classified, handler, invoked>>
           ELSE IF v # "ok"
           THEN Return(FALSE, v) /\ UNCHANGED <<classified, handler, invoked, exc>>
           ELSE /\ classified' = TRUE
                /\ IF c \in Handlers
                   THEN /\ pc' = c
                        /\ handler' = c
                        /\ invoked' = Append(invoked, c)
                        /\ UNCHANGED <<ret, outcome, exc>>
                   ELSE Return(FALSE, c) /\ UNCHANGED <<handler, invoked, exc>>
    /\ UNCHANGED <<payload, include_timestamps, output_file, tiers, chronological_segments,
                   transcript_lines, console, file, prev, handles>>
    /\ UNCHANGED serverVars

\* ------------------------------------------------------------------ AWS with speakers
TierDone(n, segs) == Append(tiers, [tier |-> n, produced |-> Len(segs), raised |-> FALSE])

TierRaised(n) == Append(tiers, [tier |-> n, produced |-> 0, raised |-> TRUE])

\* "if not chronological_segments": the next tier runs only on an empty list
FirstTierOnly(segs, fallback) == "sort"

NextAfterTier(segs, fallback) == IF segs = <<>> THEN fallback ELSE "sort"

\* chronological_segments.sort(key=lambda x: x["start_time"])
KeepOrder(segs) == segs

SortChronological(segs) == SortByStart(segs)

Tier1 ==
    /\ pc = "aws_speakers"
    /\ LET t == Tier1Segments(payload.segments, 1, payload.items)
       IN  IF payload.speakerLabels = "nosegments"
           THEN Raise("KeyError") /\ UNCHANGED <<tiers, chronological_segments>>
           ELSE IF t.raised
           THEN Raise("KeyError") /\ tiers' = TierRaised(1) /\ UNCHANGED chronological_segments
           ELSE /\ chronological_segments' = t.segs
                /\ tiers' = TierDone(1, t.segs)
                /\ pc' = NextAfterTier(t.segs, "tier2")
                /\ UNCHANGED <<exc, ret, outcome>>
    /\ UNCHANGED <<payload, include_timestamps, output_file, handler, invoked, classified,
                   transcript_lines, console, file, prev, handles>>
    /\ UNCHANGED serverVars

Tier2 ==
    /\ pc = "tier2"
    /\ LET t == Tier2Segments(payload.segments, 1, payload.items, Tier2Start)
       IN  IF t.raised
           THEN Raise("KeyError") /\ tiers' = TierRaised(2) /\ UNCHANGED chronological_segments
           ELSE /\ chronological_segments' = t.segs
                /\ tiers' = TierDone(2, t.segs)
                /\ pc' = NextAfterTier(t.segs, "tier3")
                /\ UNCHANGED <<exc, ret, outcome>>
    /\ UNCHANGED <<payload, include_timestamps, output_file, handler, invoked, classified,
                   transcript_lines, console, file, prev, handles>>
    /\ UNCHANGED serverVars

Tier3 ==
    /\ pc = "tier3"
    /\ chronological_segments' = Tier3Segments(payload.items)
    /\ tiers' = TierDone(3, Tier3Segments(payload.items))
    /\ pc' = "sort"
    /\ UNCHANGED <<payload, include_timestamps, output_file, handler, invoked, classified,
                   transcript_lines, console, file, exc, ret, outcome, prev, handles>>
    /\ UNCHANGED serverVars

SortSegments ==
    /\ pc = "sort"
    /\ chronological_segments' = SortChronological(chronological_segments)
    /\ IF chronological_segments = <<>>
       THEN Return(FALSE, "no_content")
       ELSE pc' = "render" /\ UNCHANGED <<ret, outcome>>
    /\ UNCHANGED <<payload, include_timestamps, output_file, handler, invoked, classified,
                   tiers, transcript_lines, console, file, exc, prev, handles>>
    /\ UNCHANGED serverVars

\* ------------------------------------------------------------------ the flatteners
AwsSimple ==
    /\ pc = "aws_simple"
    /\ LET t == SimpleLines(payload, include_timestamps)
       IN  IF payload.transcripts = <<>>
           THEN Return(FALSE, "no_transcripts") /\ UNCHANGED <<transcript_lines, exc>>
           ELSE IF t.raised
           THEN Raise("IndexError") /\ UNCHANGED transcript_lines
           ELSE /\ transcript_lines' = t.lines
                /\ pc' = "render"
                /\ UNCHANGED <<exc, ret, outcome>>
    /\ UNCHANGED <<payload, include_timestamps, output_file, handler, invoked, classified,
                   tiers, chronological_segments, console, file, prev, handles>>
    /\ UNCHANGED serverVars

Azure ==
    /\ pc = "azure"
    /\ LET lines == AzureLines(payload, include_timestamps)
       IN  IF lines = <<>>
           THEN Return(FALSE, "no_azure") /\ UNCHANGED transcript_lines
           ELSE /\ transcript_lines' = lines
                /\ pc' = "render"
                /\ UNCHANGED <<ret, outcome>>
    /\ UNCHANGED <<payload, include_timestamps, output_file, handler, invoked, classified,
                   tiers, chronological_segments, console, file, exc, prev, handles>>
    /\ UNCHANGED serverVars

Gcp ==
    /\ pc = "gcp"
    /\ LET lines == GcpLines(payload.gcp, include_timestamps)
       IN  IF payload.gcp = <<>>
           THEN Return(FALSE, "no_gcp_results") /\ UNCHANGED transcript_lines
           ELSE IF lines = <<>>
           THEN Return(FALSE, "no_gcp_transcript") /\ UNCHANGED transcript_lines
           ELSE /\ transcript_lines' = lines
                /\ pc' = "render"
                /\ UNCHANGED <<ret, outcome>>
    /\ UNCHANGED <<payload, include_timestamps, output_file, handler, invoked, classified,
                   tiers, chronological_segments, console, file, exc, prev, handles>>
    /\ UNCHANGED serverVars

\* ------------------------------------------------------------------ renderer and sink
\* The speaker handler builds each line as it prints it; the flatteners print
\* the lines they have built.
Render ==
    /\ pc = "render"
    /\ transcript_lines' =
           IF handler = "aws_speakers"
           THEN SpeakerLines(chronological_segments, include_timestamps)
           ELSE transcript_lines
    /\ console' = transcript_lines'
    /\ IF output_file # "none"
       THEN pc' = "write" /\ UNCHANGED <<ret, outcome>>
       ELSE Return(TRUE, "ok")
    /\ UNCHANGED <<payload, include_timestamps, output_file, handler, invoked, classified,
                   tiers, chronological_segments, file, exc, prev, handles>>
    /\ UNCHANGED serverVars

\* open(output_file, "w") truncates; f.write("\n".join(transcript_lines))
Appended(old, lines) == [exists |-> TRUE, lines |-> old.lines \o lines]

Written(old, lines) == [exists |-> TRUE, lines |-> lines]

\* Neither open nor write raises: the "with" block runs to its end.
WriteAlwaysSucceeds(out) == TRUE

WriteSucceeds(out) == out = "good"

\* open(output_file, "w"): a handle, and the file truncated, or an OSError that
\* the except clause of the write block turns into "return False".
OpenFile ==
    /\ pc = "write"
    /\ IF output_file = "unopenable"
       THEN file' = file /\ handles' = handles /\ Return(FALSE, "write_error")
                         /\ UNCHANGED exc
       ELSE /\ file' = Written(file, <<>>)
            /\ handles' = handles + 1
            /\ pc' = "opened"
            /\ UNCHANGED <<exc, ret, outcome>>
    /\ UNCHANGED <<payload, include_timestamps, output_file, handler, invoked, classified,
                   tiers, chronological_segments, transcript_lines, console, prev>>
    /\ UNCHANGED serverVars

\* f.write("\n".join(transcript_lines)) inside the "with" block
WriteFile ==
    /\ pc = "opened"
    /\ IF WriteSucceeds(output_file)
       THEN file' = Written(file, transcript_lines) /\ exc' = exc
       ELSE file' = file /\ exc' = "OSError"
    /\ pc' = "closing"
    /\ UNCHANGED <<payload, include_timestamps, output_file, handler, invoked, classified,
                   tiers, chronological_segments, transcript_lines, console, ret, outcome,
                   prev, handles>>
    /\ UNCHANGED serverVars

\* The handle is never given back.
Leaked(n) == n

\* __exit__ of the "with" block closes the handle, an exception in flight or not
Released(n) == n - 1

CloseFile ==
    /\ pc = "closing"
    /\ handles' = Released(handles)
    /\ IF exc = "" THEN Return(TRUE, "ok") ELSE Return(FALSE, "write_error")
    /\ exc' = ""
    /\ UNCHANGED <<payload, include_timestamps, output_file, handler, invoked, classified,
                   tiers, chronological_segments, transcript_lines, console, file, prev>>
    /\ UNCHANGED serverVars

\* ------------------------------------------------------------------ except clauses
\* "except KeyError" and "except Exception" of the handlers, "except Exception"
\* of process_transcription_result.
HandlerCatches(h, e) == e \in {"KeyError", "IndexError", "ValueError"}

OuterCatches(e) == e \in {"KeyError", "IndexError", "ValueError"}

Catch ==
    /\ pc = "raised"
    /\ IF handler # "" /\ HandlerCatches(handler, exc)
       THEN Return(FALSE, IF handler = "aws_speakers" /\ exc = "KeyError"
                          THEN "key_error" ELSE "handler_error")
       ELSE IF OuterCatches(exc)
       THEN Return(FALSE, "dispatch_error")
       ELSE pc' = "escaped" /\ UNCHANGED <<ret, outcome>>
    /\ exc' = ""
    /\ UNCHANGED <<payload, include_timestamps, output_file, handler, invoked, classified,
                   tiers, chronological_segments, transcript_lines, console, file, prev, handles>>
    /\ UNCHANGED serverVars

\* ------------------------------------------------------------------ rate limiter
\* No timestamp is kept: the list is emptied at every call.
KeepNone(times, current_time) == <<>>

\* [t for t in times if current_time - t < 1.0]
KeepRecent(times, current_time) ==
    SelectSeq(times, LAMBDA t : current_time - t < TicksPerSecond)

Tick ==
    /\ now < MaxTime
    /\ now' = now + 1
    /\ UNCHANGED <<client_message_times, processed, last>>
    /\ UNCHANGED <<engineVars, backendVars, wsVars>>

\* process_message_with_rate_limit; raises says that process_message, awaited at
\* the end, raises instead of returning.
ProcessMessageWithRateLimit(client_id, raises) ==
    LET recent == KeepRecent(client_message_times[client_id], now)
        limited == Len(recent) >= rate_limit
        full == Cardinality({i \in 1..Len(processed[client_id]) :
                    now - processed[client_id][i] < TicksPerSecond}) >= rate_limit
    IN  /\ client_message_times' =
               [client_message_times EXCEPT
                   ![client_id] = IF limited THEN recent ELSE Append(recent, now)]
        /\ processed' =
               [processed EXCEPT ![client_id] = IF limited THEN @ ELSE Append(@, now)]
        /\ last' = [last EXCEPT ![client_id] =
                       [called |-> TRUE, time |-> now,
                        ret |-> IF limited THEN "False"
                                ELSE IF raises THEN "raised" ELSE "True",
                        full |-> full,
                        counted |-> Len(client_message_times'[client_id]) > Len(recent),
                        handled |-> Len(processed'[client_id]) > Len(processed[client_id])]]
        /\ now' = now
        /\ UNCHANGED <<engineVars, backendVars, wsVars>>

\* ------------------------------------------------------------------ backend
\* {"displayText": ..., "duration": ...}: the one shape with neither "results" nor
\* a phrase list that process_transcription_data reads.
DisplayPayload(text, ticks) == Base @@ [displayText |-> text, duration |-> ticks]

DisplayPayloads == {DisplayPayload(Hi, 20000000), DisplayPayload(<<>>, 0)}

BackendPayloads ==
    AwsPayloads \cup AwsSamples \cup SimplePayloads \cup GcpPayloads \cup DisplayPayloads
    \cup {Base, [Base EXCEPT !.kind = "None"], [Base EXCEPT !.kind = "EmptyDict"]}

\* the content of every item with a non-empty alternatives list
RECURSIVE ItemContents(_)
ItemContents(items) ==
    IF items = <<>> THEN <<>>
    ELSE IF HasAlt(Head(items))
    THEN <<Head(items).content>> \o ItemContents(Tail(items))
    ELSE ItemContents(Tail(items))

\* the words one diarization segment collects, each with the punctuation behind it
RECURSIVE SegmentWords(_, _, _)
SegmentWords(items, i, segment) ==
    IF i > Len(items) THEN [raised |-> FALSE, words |-> <<>>]
    ELSE LET item == items[i]
             item_index == IndexOf(items, item)
             punct == item_index + 1 <= Len(items) /\ IsPunct(items[item_index + 1])
             rest == SegmentWords(items, i + 1, segment)
         IN  IF Timed(item) /\ Within(item, segment) /\ HasAlt(item)
             THEN IF punct /\ ~HasAlt(items[item_index + 1]) THEN [raised |-> TRUE, words |-> <<>>]
                  ELSE IF rest.raised THEN rest
                  ELSE [raised |-> FALSE,
                        words |-> <<item.content \o
                                      (IF punct THEN items[item_index + 1].content ELSE <<>>)>>
                                  \o rest.words]
             ELSE rest

SpeakerData(segment, text) ==
    [speaker |-> "Speaker " \o segment.speaker_label, text |-> text,
     start_time |-> segment.start_time, end_time |-> segment.end_time]

\* the except clause: every segment again, without text
RECURSIVE SegmentsWithoutText(_)
SegmentsWithoutText(segments) ==
    IF segments = <<>> THEN <<>>
    ELSE <<SpeakerData(Head(segments), <<>>)>> \o SegmentsWithoutText(Tail(segments))

\* result["speakers"]: what the loop appended before an exception stays in the list
RECURSIVE SpeakerSegments(_, _, _)
SpeakerSegments(segments, items, speakers) ==
    IF segments = <<>> THEN [raised |-> FALSE, speakers |-> speakers]
    ELSE LET w == SegmentWords(items, 1, Head(segments))
             segment_text == JoinSpace(SplitWs(JoinSpace(w.words)))
         IN  IF w.raised THEN [raised |-> TRUE, speakers |-> speakers]
             ELSE SpeakerSegments(Tail(segments), items,
                      IF segment_text # <<>>
                      THEN Append(speakers, SpeakerData(Head(segments), segment_text))
                      ELSE speakers)

Speakers(data) ==
    LET s == SpeakerSegments(data.segments, data.items, <<>>)
    IN  IF s.raised THEN s.speakers \o SegmentsWithoutText(data.segments) ELSE s.speakers

Duration(items) ==
    IF items # <<>> /\ items[Len(items)].end_time # NoTime
    THEN items[Len(items)].end_time ELSE 0

RECURSIVE FirstTranscripts(_)
FirstTranscripts(results) ==
    IF results = <<>> THEN <<>>
    ELSE IF Head(results).alternatives # <<>>
    THEN <<Head(results).alternatives[1].transcript>> \o FirstTranscripts(Tail(results))
    ELSE FirstTranscripts(Tail(results))

Returns(transcript, speakers, duration) ==
    [returned |-> TRUE, transcript |-> transcript, speakers |-> speakers,
     duration |-> duration]

\* isinstance(transcription_data['results'], list), the test of the last elif
ListBranch(data) == data.resultsKind = "list"

\* 'x' in results, for results a list of mappings: no element equals a string, so
\* a list of results passes through the first branch with nothing set. An empty
\* mapping or list of results returns at once; speaker_labels "empty" is read as
\* the empty mapping.
TranscriptionData(data, diarize) ==
    IF data.kind \in {"None", "EmptyDict"} THEN Returns(<<>>, <<>>, 0)
    ELSE IF data.resultsKind # "absent"
    THEN IF data.resultsKind = "dict"
         THEN Returns(IF data.transcripts # <<>> THEN data.transcripts[1].transcript
                      ELSE JoinSpace(ItemContents(data.items)),
                      IF diarize /\ data.speakerLabels # "absent"
                      THEN Speakers(data) ELSE <<>>,
                      Duration(data.items))
         ELSE Returns(<<>>, <<>>, 0)
    ELSE IF "displayText" \in DOMAIN data
    THEN Returns(data.displayText, <<>>, TicksToMs(data.duration))
    ELSE IF ListBranch(data)
    THEN Returns(JoinSpace(FirstTranscripts(data.gcp)), <<>>, 0)
    ELSE Returns(<<>>, <<>>, 0)

\* process_transcription_data(payload, enable_diarization). With diarization it
\* calls process_transcription_result for the printed lines only: the value is
\* not used and no exception leaves that call.
ProcessTranscriptionData ==
    /\ ~result.returned
    /\ result' = TranscriptionData(payload, enable_diarization)
    /\ UNCHANGED enable_diarization
    /\ UNCHANGED <<engineVars, rateVars, wsVars>>

\* ------------------------------------------------------------------ websocket
Exceptions == {"WebSocketDisconnect", "Exception"}

\* connect: nothing is registered when websocket.accept() raises
Connect(client_id, accepted) ==
    /\ streaming[client_id] = "idle"
    /\ accepted
    /\ active_connections' = active_connections \cup {client_id}
    /\ transcribers' = transcribers \cup {client_id}
    /\ UNCHANGED <<streaming, reason>>
    /\ UNCHANGED <<engineVars, backendVars, rateVars>>

Disconnect(client_id) ==
    /\ client_id \in active_connections \cup transcribers
    /\ active_connections' = active_connections \ {client_id}
    /\ transcribers' = transcribers \ {client_id}
    /\ UNCHANGED <<streaming, reason>>
    /\ UNCHANGED <<engineVars, backendVars, rateVars>>

\* send_message_safe: a send that raises disconnects the client; there is no
\* send, and nothing to raise, for a client that is not connected
SendMessageSafe(client_id, raises) ==
    /\ client_id \in active_connections
    /\ raises
    /\ active_connections' = active_connections \ {client_id}
    /\ transcribers' = transcribers \ {client_id}
    /\ UNCHANGED <<streaming, reason>>
    /\ UNCHANGED <<engineVars, backendVars, rateVars>>

Ended(client_id, why) ==
    /\ streaming' = [streaming EXCEPT ![client_id] = "ended"]
    /\ reason' = [reason EXCEPT ![client_id] = why]

\* the two except clauses of handle_websocket_streaming: the second sends the
\* error to the client before it disconnects, and that send can raise
Except(client_id, e, sendRaises) ==
    IF e = "Exception" /\ sendRaises /\ client_id \in active_connections
    THEN /\ UNCHANGED <<active_connections, transcribers>>
         /\ Ended(client_id, "send_raised")
    ELSE /\ active_connections' = active_connections \ {client_id}
         /\ transcribers' = transcribers \ {client_id}
         /\ Ended(client_id, e)

\* handle_websocket_streaming up to its first receive: connect is outside the try
HandleWebsocketStreaming(client_id, accepted) ==
    /\ streaming[client_id] \in {"idle", "ended"}
    /\ IF accepted
       THEN /\ active_connections' = active_connections \cup {client_id}
            /\ transcribers' = transcribers \cup {client_id}
            /\ streaming' = [streaming EXCEPT ![client_id] = "receiving"]
            /\ reason' = [reason EXCEPT ![client_id] = ""]
       ELSE /\ UNCHANGED <<active_connections, transcribers>>
            /\ Ended(client_id, "accept_raised")
    /\ UNCHANGED <<engineVars, backendVars, rateVars>>

\* receive_json raises: the peer has gone, or the frame is not JSON
ReceiveRaises(client_id, e, sendRaises) ==
    /\ streaming[client_id] = "receiving"
    /\ Except(client_id, e, sendRaises)
    /\ UNCHANGED <<engineVars, backendVars, rateVars>>

\* an "audio" message: process_audio catches what the transcriber raises, and
\* only a send to a connected client can raise out of it; "none" is the message
\* handled, a "config" message or one of another type included
ReceiveAudio(client_id, e, sendRaises) ==
    /\ streaming[client_id] = "receiving"
    /\ IF e \in Exceptions
       THEN /\ client_id \in active_connections \cap transcribers
            /\ Except(client_id, e, sendRaises)
       ELSE UNCHANGED <<active_connections, transcribers, streaming, reason>>
    /\ UNCHANGED <<engineVars, backendVars, rateVars>>

\* a "stop" message: the final transcription is sent and the loop left by break
ReceiveStop(client_id, e, sendRaises) ==
    /\ streaming[client_id] = "receiving"
    /\ IF e \in Exceptions
       THEN /\ client_id \in active_connections \cap transcribers
            /\ Except(client_id, e, sendRaises)
       ELSE /\ UNCHANGED <<active_connections, transcribers>>
            /\ Ended(client_id, "stop")
    /\ UNCHANGED <<engineVars, backendVars, rateVars>>

\* ------------------------------------------------------------------ specifications
Next ==
    \/ \E timestamps \in BOOLEAN, out \in OutputFiles : Call(timestamps, out)
    \/ Dispatch
    \/ Tier1
    \/ Tier2
    \/ Tier3
    \/ SortSegments
    \/ AwsSimple
    \/ Azure
    \/ Gcp
    \/ Render
    \/ OpenFile
    \/ WriteFile
    \/ CloseFile
    \/ Catch

Spec == Init /\ [][Next]_vars

NextAws ==
    \/ Dispatch
    \/ Tier1
    \/ Tier2
    \/ Tier3
    \/ SortSegments
    \/ Render
    \/ Catch

SpecAws == InitAws /\ [][NextAws]_vars

NextGcpTime ==
    \/ Dispatch
    \/ Gcp
    \/ Render

SpecGcpTime == InitGcpTime /\ [][NextGcpTime]_vars

\* The engine at rest, before any call.
EngineIdle ==
    /\ payload = Base
    /\ include_timestamps = TRUE
    /\ output_file = "none"
    /\ pc = "idle"
    /\ file = NoFile
    /\ prev = NoPrev
    /\ handles = 0
    /\ Fresh

InitRate == EngineIdle /\ ServerIdle

NextRate ==
    \/ Tick
    \/ \E client_id \in Clients, raises \in BOOLEAN :
           ProcessMessageWithRateLimit(client_id, raises)

SpecRate == InitRate /\ [][NextRate]_vars

InitBackend ==
    /\ payload \in BackendPayloads
    /\ include_timestamps = TRUE
    /\ output_file = "none"
    /\ pc = "idle"
    /\ file = NoFile
    /\ prev = NoPrev
    /\ handles = 0
    /\ Fresh
    /\ enable_diarization \in BOOLEAN
    /\ result = NoResult
    /\ ManagerIdle

NextBackend == ProcessTranscriptionData

SpecBackend == InitBackend /\ [][NextBackend]_vars

InitWs == EngineIdle /\ ServerIdle

NextWs ==
    \/ \E client_id \in Clients, accepted \in BOOLEAN : Connect(client_id, accepted)
    \/ \E client_id \in Clients : Disconnect(client_id)
    \/ \E client_id \in Clients, raises \in BOOLEAN : SendMessageSafe(client_id, raises)
    \/ \E client_id \in Clients, accepted \in BOOLEAN :
           HandleWebsocketStreaming(client_id, accepted)
    \/ \E client_id \in Clients, e \in Exceptions, sendRaises \in BOOLEAN :
           ReceiveRaises(client_id, e, sendRaises)
    \/ \E client_id \in Clients, e \in Exceptions \cup {"none"}, sendRaises \in BOOLEAN :
           ReceiveAudio(client_id, e, sendRaises)
    \/ \E client_id \in Clients, e \in Exceptions \cup {"none"}, sendRaises \in BOOLEAN :
           ReceiveStop(client_id, e, sendRaises)

SpecWs == InitWs /\ [][NextWs]_vars

\* ------------------------------------------------------------------ properties
Returned == pc = "done"

ByTier(n) == Returned /\ ret /\ tiers # <<>> /\ tiers[Len(tiers)].tier = n

\* The start time a rendered line shows, read back from its bracketed prefix.
LineStart(line) == line.ts[1] * 60000 + line.ts[2] * 1000 + line.ts[3]

\* A diarization segment some word of which tier 1 renders.
HasRenderedWord(segment, items) ==
    \E i \in 1..Len(items) :
        ~IsPunct(items[i]) /\ Timed(items[i]) /\ Within(items[i], segment) /\ HasAlt(items[i])

\* C1: when the speaker handler succeeds, the printed lines are in non-decreasing
\* order of their segment start time, whatever the order of the input segments;
\* for a tier-1 result the lines showing a given start time are as many as the
\* input segments with that start time that hold a rendered word, so that the
\* order of the input segments decides nothing but the order among ties.
C1_LinesSortedByStart ==
    (Returned /\ ret /\ handler = "aws_speakers" /\ include_timestamps) =>
        /\ \A i, j \in 1..Len(console) :
               i < j => LineStart(console[i]) <= LineStart(console[j])
        /\ \A i, j \in 1..Len(chronological_segments) :
               i < j => chronological_segments[i].start_time
                            <= chronological_segments[j].start_time
        /\ Len(console) = Len(chronological_segments)
        /\ \A i \in 1..Len(console) :
               LineStart(console[i]) = chronological_segments[i].start_time
        /\ ByTier(1) =>
               \A t \in {payload.segments[k].start_time : k \in 1..Len(payload.segments)} :
                   Cardinality({i \in 1..Len(console) : LineStart(console[i]) = t})
                       = Cardinality({k \in 1..Len(payload.segments) :
                             /\ payload.segments[k].start_time = t
                             /\ HasRenderedWord(payload.segments[k], payload.items)})

C1_Witness ==
    /\ Returned /\ ret /\ handler = "aws_speakers"
    /\ Len(payload.segments) = 2
    /\ payload.segments[1].start_time > payload.segments[2].start_time
    /\ Len(console) = 2
    /\ LineStart(console[1]) < LineStart(console[2])

TierRan(n) == \E i \in 1..Len(tiers) : tiers[i].tier = n

TierEmpty(n) ==
    \E i \in 1..Len(tiers) : tiers[i].tier = n /\ ~tiers[i].raised /\ tiers[i].produced = 0

\* C2: the tiers run in the order 1, 2, 3; once the speaker handler has returned,
\* tier 2 has run iff tier 1 ended with zero segments, tier 3 has run iff tiers 1
\* and 2 both ended with zero segments, and the "no content" return (False after
\* the sort) is reached only when all three tiers ended with zero segments.
C2_TierOrder ==
    /\ \A i \in 1..Len(tiers) : tiers[i].tier = i
    /\ (Returned /\ handler = "aws_speakers") =>
           /\ TierRan(2) <=> TierEmpty(1)
           /\ TierRan(3) <=> (TierEmpty(1) /\ TierEmpty(2))
           /\ outcome = "no_content" => (TierEmpty(1) /\ TierEmpty(2) /\ TierEmpty(3))
    /\ pc = "sort" =>
           /\ TierRan(2) <=> TierEmpty(1)
           /\ TierRan(3) <=> (TierEmpty(1) /\ TierEmpty(2))

C2_Witness ==
    /\ Returned /\ handler = "aws_speakers" /\ outcome = "no_content"
    /\ Len(tiers) = 3
    /\ payload.segments # <<>>

\* The raw positions of the word items tier 1 collects for a segment, in ascending
\* start time (positions in raw order among equal start times).
RECURSIVE InsertPosition(_, _, _)
InsertPosition(items, sorted, i) ==
    IF sorted = <<>> THEN <<i>>
    ELSE IF items[sorted[Len(sorted)]].start_time <= items[i].start_time THEN Append(sorted, i)
    ELSE Append(InsertPosition(items, SubSeq(sorted, 1, Len(sorted) - 1), i),
                sorted[Len(sorted)])

RECURSIVE SegmentPositions(_, _, _)
SegmentPositions(items, segment, n) ==
    IF n = 0 THEN <<>>
    ELSE IF ~IsPunct(items[n]) /\ Timed(items[n]) /\ Within(items[n], segment)
    THEN InsertPosition(items, SegmentPositions(items, segment, n - 1), n)
    ELSE SegmentPositions(items, segment, n - 1)

\* Each rendered word followed by the content of the punctuation item at the
\* very next raw position, if there is one.
RECURSIVE WordsWithOwnPunctuation(_, _)
WordsWithOwnPunctuation(items, positions) ==
    IF positions = <<>> THEN <<>>
    ELSE LET i == Head(positions)
             rest == WordsWithOwnPunctuation(items, Tail(positions))
         IN  IF ~HasAlt(items[i]) THEN rest
             ELSE <<items[i].content \o
                      (IF i + 1 <= Len(items) /\ IsPunct(items[i + 1])
                       THEN items[i + 1].content ELSE <<>>)>> \o rest

RECURSIVE SegmentsWithOwnPunctuation(_, _)
SegmentsWithOwnPunctuation(segments, items) ==
    IF segments = <<>> THEN <<>>
    ELSE LET segment == Head(segments)
             words == WordsWithOwnPunctuation(items,
                          SegmentPositions(items, segment, Len(items)))
             rest == SegmentsWithOwnPunctuation(Tail(segments), items)
         IN  IF words # <<>>
             THEN <<[speaker |-> segment.speaker_label, text |-> FormatText(words),
                     start_time |-> segment.start_time,
                     end_time |-> segment.end_time]>> \o rest
             ELSE rest

AllPunctuationHasContent(items) ==
    \A i \in 1..Len(items) : IsPunct(items[i]) => HasAlt(items[i])

\* C3: in the segments tier 1 produces, the text of the word at raw index i is
\* followed, without a space, by the content of the item at i+1 when that item is
\* punctuation, and by nothing otherwise -- also when the list holds two
\* identical word items.
C3_PunctuationOfTheNextRawItem ==
    (Len(tiers) = 1 /\ ~tiers[1].raised /\ AllPunctuationHasContent(payload.items)) =>
        (pc \in {"tier2", "sort"} =>
            chronological_segments
                = SegmentsWithOwnPunctuation(payload.segments, payload.items))

HiNumeric == Word(Hi, 0, 400, "present", TRUE)

\* C6: one segment spk_0 over [0.0, 1.0] and the items word "Hi" (0.0 to 0.4, the
\* times given as numbers) and punctuation "." give exactly one segment, of
\* speaker spk_0 and text "Hi.", produced by tier 1.
C6_FloatZeroStartAttributed ==
    (Returned /\ payload = AwsPayload(<<HiNumeric, Dot>>, <<Segment("spk_0", 0, 1000)>>)) =>
        /\ ret
        /\ Len(tiers) = 1
        /\ chronological_segments =
               <<[speaker |-> "spk_0", text |-> <<"H", "i", ".">>,
                  start_time |-> 0, end_time |-> 1000]>>

\* The positions of a call in progress: each is the guard of exactly one step.
Running ==
    {"dispatch", "aws_speakers", "tier2", "tier3", "sort", "aws_simple", "azure", "gcp",
     "render", "write", "opened", "closing", "raised"}

\* C4: whatever the input, no exception leaves process_transcription_result: a
\* call is either in progress, at a position from which the code goes on, or has
\* returned a boolean; an input that is empty or is not a mapping returns False
\* before any format test is made and before any handler is invoked.
C4_NoExceptionEscapes ==
    /\ pc # "escaped"
    /\ pc \in Running \cup {"idle", "done"}
    /\ pc = "raised" => (exc # "" /\ (handler = "" \/ handler \in Handlers))
    /\ pc = "closing" => handler \in Handlers
    /\ Returned => (ret \in BOOLEAN /\ exc = "")
    /\ (Returned /\ payload.kind # "Dict") =>
           (ret = FALSE /\ ~classified /\ invoked = <<>> /\ console = <<>>)

C4_Witness ==
    /\ Returned /\ ret = FALSE /\ ~classified
    /\ payload.kind = "List"
    /\ prev.called

IsAzure(p) == p.hasRecognized \/ p.hasCombined

\* C5: a mapping goes to the Azure handler if it has recognizedPhrases or
\* combinedRecognizedPhrases (whatever "results" holds); else to the GCP handler if
\* results is a list; else to the AWS speaker handler if results is a mapping with
\* (non-empty) speaker_labels and items; else to the AWS simple handler if results
\* is a mapping with (non-empty) transcripts; else to none, and the call returns
\* False.  At most one handler is invoked per call.
C5_ClassificationOrder ==
    /\ Len(invoked) <= 1
    /\ (Returned /\ payload.kind = "Dict") =>
           /\ IsAzure(payload) => invoked = <<"azure">>
           /\ (~IsAzure(payload) /\ payload.resultsKind = "list") => invoked = <<"gcp">>
           /\ (~IsAzure(payload) /\ payload.resultsKind = "dict"
                 /\ payload.speakerLabels \in {"nosegments", "segments"}
                 /\ payload.items # <<>>) => invoked = <<"aws_speakers">>
           /\ (~IsAzure(payload) /\ payload.resultsKind = "dict"
                 /\ ~(payload.speakerLabels \in {"nosegments", "segments"}
                        /\ payload.items # <<>>)
                 /\ payload.transcripts # <<>>) => invoked = <<"aws_simple">>
           /\ (~IsAzure(payload)
                 /\ (payload.resultsKind \in {"absent", "other"}
                       \/ (payload.resultsKind = "dict"
                             /\ ~(payload.speakerLabels \in {"nosegments", "segments"}
                                    /\ payload.items # <<>>)
                             /\ payload.transcripts = <<>>))) =>
                  (invoked = <<>> /\ ret = FALSE)

C5_Witness ==
    /\ Returned /\ ret
    /\ payload.hasRecognized /\ payload.resultsKind = "list" /\ payload.gcp # <<>>
    /\ invoked = <<"azure">>

\* The error kinds of the design, by the return statement reached.
ErrorKind(site) ==
    CASE site \in {"unknown_format", "unknown_aws"} -> "UnrecognizedFormat"
      [] site \in {"no_content", "no_transcripts", "no_azure",
                   "no_gcp_results", "no_gcp_transcript"} -> "EmptyResult"
      [] site \in {"empty", "invalid", "unknown_results", "key_error",
                   "handler_error", "dispatch_error"} -> "MalformedPayload"
      [] site = "write_error" -> "SinkWriteFailure"
      [] OTHER -> "none"

TwoFailuresOfDifferentKinds ==
    /\ Returned /\ prev.called
    /\ ~ret /\ ~prev.ret
    /\ ErrorKind(outcome) # ErrorKind(prev.outcome)

SameArguments ==
    /\ prev.called
    /\ prev.include_timestamps = include_timestamps
    /\ prev.output_file = output_file

\* C8: a call made again with the same payload, output_file and
\* include_timestamps returns the same value, prints the same lines in the same
\* order and leaves the same file content.
C8_SecondCallSameResult ==
    (Returned /\ SameArguments) =>
        /\ ret = prev.ret
        /\ console = prev.console
        /\ file = prev.file
        /\ outcome = prev.outcome

C8_Witness ==
    /\ Returned /\ SameArguments /\ ret
    /\ output_file = "good"
    /\ Len(file.lines) >= 2

\* C9: with include_timestamps false no printed line has a bracketed time prefix;
\* the speaker handler prints "<speaker>: <text>" for each segment, every other
\* handler prints exactly the texts of the payload, one line per transcript,
\* phrase or result and none per word.
C9_NoTimestampsWhenDisabled ==
    (~include_timestamps /\ pc \in {"write", "done"}) =>
        /\ \A i \in 1..Len(console) : console[i].ts = <<>>
        /\ handler = "aws_speakers" =>
               /\ Len(console) = Len(chronological_segments)
               /\ \A i \in 1..Len(console) :
                      /\ console[i].speaker = chronological_segments[i].speaker
                      /\ console[i].text = chronological_segments[i].text
        /\ (handler = "aws_simple" /\ console # <<>>) =>
               console = <<[ts |-> <<>>, speaker |-> "",
                            text |-> payload.transcripts[1].transcript]>>
        /\ (handler = "gcp" /\ console # <<>>) =>
               /\ Len(console) = Cardinality({k \in 1..Len(payload.gcp) :
                                                payload.gcp[k].alternatives # <<>>})
               /\ \A i \in 1..Len(console) :
                      /\ console[i].speaker = ""
                      /\ \E k \in 1..Len(payload.gcp) :
                             /\ payload.gcp[k].alternatives # <<>>
                             /\ console[i].text = payload.gcp[k].alternatives[1].transcript
        /\ (handler = "azure" /\ console # <<>>) =>
               \A i \in 1..Len(console) :
                   /\ console[i].speaker = ""
                   /\ IF payload.combined # <<>>
                      THEN console[i].text = payload.combined[i].display
                      ELSE \E k \in 1..Len(payload.recognized) :
                               /\ payload.recognized[k].recognitionStatus = "Success"
                               /\ payload.recognized[k].nBest # <<>>
                               /\ console[i].text = payload.recognized[k].nBest[1].display

C9_Witness ==
    /\ Returned /\ ret /\ ~include_timestamps
    /\ handler = "aws_speakers"
    /\ Len(console) = 2
    /\ console[1].speaker = "spk_0"

WriteFailed == output_file \in {"unopenable", "unwritable"}

\* C10: when the file named by output_file cannot be opened or written, the
\* handler returns False; the transcript lines were printed before the write was
\* tried, and they are the lines of a call made without output_file.
C10_WriteFailureReported ==
    /\ pc = "write" => (console = transcript_lines /\ invoked # <<>>)
    /\ (Returned /\ WriteFailed /\ invoked # <<>> /\ outcome = "write_error") =>
           (ret = FALSE /\ console = transcript_lines)
    /\ (Returned /\ WriteFailed /\ prev.called /\ prev.output_file = "none"
          /\ prev.include_timestamps = include_timestamps) =>
           /\ ret = FALSE
           /\ console = prev.console
           /\ prev.ret => outcome = "write_error"

C10_Witness ==
    /\ Returned /\ output_file = "unopenable" /\ outcome = "write_error"
    /\ prev.called /\ prev.output_file = "none" /\ prev.ret
    /\ prev.include_timestamps = include_timestamps
    /\ console # <<>>
    /\ ret = FALSE

\* C11: a call holds at most one file handle, and only between the open and the
\* end of the "with" block; when the handler returns, after a write that worked
\* as after one that failed, no handle is left open.
C11_HandleReleased ==
    /\ handles \in {0, 1}
    /\ handles = 1 <=> pc \in {"opened", "closing"}
    /\ Returned => handles = 0

C11_Witness ==
    /\ Returned /\ outcome = "write_error" /\ output_file = "unwritable"
    /\ file.exists
    /\ handles = 0
    /\ prev.called /\ prev.output_file = "good" /\ prev.ret

\* C12: an Azure payload with a non-empty combinedRecognizedPhrases prints one
\* line per combined phrase, in input order, that is the phrase's display text
\* with no speaker and no time prefix, include_timestamps set or not, and
\* whatever recognizedPhrases holds.
C12_CombinedPhraseLines ==
    (handler = "azure" /\ payload.combined # <<>> /\ pc \in {"write", "done"}) =>
        /\ Len(console) = Len(payload.combined)
        /\ \A i \in 1..Len(console) :
               console[i] = [ts |-> <<>>, speaker |-> "", text |-> payload.combined[i].display]
        /\ (Returned /\ output_file \in {"none", "good"}) => ret

C12_Witness ==
    /\ Returned /\ ret /\ handler = "azure" /\ include_timestamps
    /\ Len(payload.combined) = 2
    /\ payload.combined[1] # payload.combined[2]
    /\ \E k \in 1..Len(payload.recognized) :
           payload.recognized[k].recognitionStatus = "Success"
               /\ payload.recognized[k].nBest # <<>>
    /\ Len(console) = 2

\* The recognizedPhrases entries that give a line.
Qualifies(phrase) == phrase.recognitionStatus = "Success" /\ Len(phrase.nBest) > 0

QualifyingPhrases(p) == SelectSeq(p.recognized, Qualifies)

\* C13: an Azure payload without a non-empty combinedRecognizedPhrases prints one
\* line for each recognizedPhrases entry of status "Success" with a non-empty
\* nBest, in input order, whose text is the display of the first nBest candidate;
\* an entry of another status gives no line; the handler returns False, having
\* printed nothing, when no entry qualifies.
C13_RecognizedPhraseLines ==
    (handler = "azure" /\ payload.combined = <<>>) =>
        /\ pc \in {"write", "done"} =>
               /\ Len(console) = Len(QualifyingPhrases(payload))
               /\ \A i \in 1..Len(console) :
                      /\ console[i].text = QualifyingPhrases(payload)[i].nBest[1].display
                      /\ console[i].speaker = ""
        /\ (Returned /\ QualifyingPhrases(payload) = <<>>) =>
               (ret = FALSE /\ outcome = "no_azure" /\ console = <<>>)
        /\ (Returned /\ QualifyingPhrases(payload) # <<>> /\ output_file \in {"none", "good"}) =>
               ret

C13_Witness ==
    /\ Returned /\ ret /\ handler = "azure" /\ payload.combined = <<>>
    /\ Len(payload.recognized) = 2
    /\ payload.recognized[1].recognitionStatus = "Failed"
    /\ Qualifies(payload.recognized[2])
    /\ Len(console) = 1

\* What a printed line shows: whether it has a time prefix, and its text.
Shape(line) == [stamped |-> line.ts # <<>>, text |-> line.text]

Shapes(lines) == [i \in 1..Len(lines) |-> Shape(lines[i])]

FlatShape(alternative) == <<[stamped |-> FALSE, text |-> alternative.transcript]>>

WordShapes(alternative) ==
    [i \in 1..Len(alternative.words) |-> [stamped |-> TRUE, text |-> alternative.words[i].word]]

TokenCount(alternative) == Len(SplitWs(alternative.transcript))

\* The lines of each result with an alternative, one result after the other;
\* flatWithoutWords says what a first alternative that has no "words" key gives.
RECURSIVE ResultShapes(_, _)
ResultShapes(results, flatWithoutWords) ==
    IF results = <<>> THEN <<>>
    ELSE LET first == Head(results)
             rest == ResultShapes(Tail(results), flatWithoutWords)
             alternative == first.alternatives[1]
         IN  IF first.alternatives = <<>> THEN rest
             ELSE IF flatWithoutWords /\ ~alternative.hasWords
             THEN FlatShape(alternative) \o rest
             ELSE IF Len(alternative.words) < TokenCount(alternative)
             THEN FlatShape(alternative) \o rest
             ELSE WordShapes(alternative) \o rest

GcpPrinted == handler = "gcp" /\ include_timestamps /\ pc \in {"render", "write", "done"}

\* C14 as claimed: with include_timestamps set, each result gives the one flat
\* line of its transcript if the words of its first alternative are fewer than
\* the whitespace tokens of the transcript, and one stamped line per word and no
\* flat line otherwise (an alternative without words has zero words).
C14_FlatOnlyWhenWordsAreFewer ==
    GcpPrinted =>
        IF pc = "render"
        THEN Shapes(transcript_lines) = ResultShapes(payload.gcp, FALSE)
        ELSE IF outcome \in {"no_gcp_results", "no_gcp_transcript"}
           THEN console = <<>> /\ ResultShapes(payload.gcp, FALSE) = <<>>
           ELSE Shapes(console) = ResultShapes(payload.gcp, FALSE)

\* C14 as amended: with include_timestamps set, each result gives the one flat
\* line of its transcript if its first alternative has no "words" key or has
\* fewer words than the transcript has whitespace tokens, and one stamped line
\* per word and no flat line otherwise; transcript "Hi" with zero words gives
\* the line "Hi".
C14_FlatWhenNoWordsOrFewer ==
    /\ GcpPrinted =>
           IF pc = "render"
           THEN Shapes(transcript_lines) = ResultShapes(payload.gcp, TRUE)
           ELSE IF outcome \in {"no_gcp_results", "no_gcp_transcript"}
           THEN console = <<>> /\ ResultShapes(payload.gcp, TRUE) = <<>>
           ELSE Shapes(console) = ResultShapes(payload.gcp, TRUE)
    /\ (GcpPrinted /\ Returned /\ payload.gcp = <<GcpResult(<<Alternative(Hi, TRUE, <<>>)>>)>>) =>
           console = <<[ts |-> <<>>, speaker |-> "", text |-> Hi]>>
    /\ (GcpPrinted /\ Returned /\ output_file \in {"none", "good"}) =>
           (ret <=> console # <<>>)

C14_Witness ==
    /\ GcpPrinted /\ Returned /\ ret
    /\ Len(payload.gcp) = 2
    /\ payload.gcp[1] = GcpResult(<<Alternative(Hi, TRUE, <<>>)>>)
    /\ payload.gcp[2].alternatives # <<>>
    /\ Len(payload.gcp[2].alternatives[1].words) = 2
    /\ Len(console) = 3
    /\ console[1].ts = <<>> /\ console[2].ts # <<>>

\* The instant a {seconds, nanos} pair stands for, if it is a whole millisecond.
WholeMs(t) == t.enc = "dict" /\ t.nanos % 1000000 = 0

InstantOf(t) == t.seconds * 1000 + t.nanos \div 1000000

SameInstant(pair, string) ==
    /\ WholeMs(pair)
    /\ string \in {LongString(InstantOf(pair)), ShortString(InstantOf(pair))}

\* C15: two words of a GCP result whose times stand for the same instants, one
\* given as {seconds, nanos} pairs and one as "<seconds>s" strings, are printed
\* with the identical time prefix, which is that of the instant: both encodings
\* come down to one seconds value.
C15_PairAndStringSameStamp ==
    (Returned /\ ret /\ handler = "gcp" /\ include_timestamps /\ Len(payload.gcp) = 1) =>
        LET words == payload.gcp[1].alternatives[1].words
        IN  \A i, j \in 1..Len(words) :
                (/\ Len(console) = Len(words)
                 /\ SameInstant(words[i].startTime, words[j].startTime)
                 /\ SameInstant(words[i].endTime, words[j].endTime)) =>
                    /\ console[i].ts = console[j].ts
                    /\ console[j].ts = FormatHMS(InstantOf(words[i].startTime))
                                           \o FormatHMS(InstantOf(words[i].endTime))

C15_Witness ==
    /\ Returned /\ ret /\ handler = "gcp"
    /\ payload \in GcpTimePayloads
    /\ payload.gcp[1].alternatives[1].words[1].startTime = PairTime(3661, 400000000)
    /\ payload.gcp[1].alternatives[1].words[2].startTime
           = StringTime(<<"3", "6", "6", "1", ".", "4", "s">>)
    /\ console[2].ts = <<1, 1, 1, 400, 1, 1, 2, 900>>

\* The time prefixes of a printed line, each as its hours, minutes and seconds
\* fields; a prefix printed without an hours field has hasHours false.
Stamp(hasHours, hours, minutes, seconds) ==
    [hasHours |-> hasHours, hours |-> hours, minutes |-> minutes, seconds |-> seconds]

Stamps(line) ==
    IF Len(line.ts) = 3 THEN {Stamp(FALSE, 0, line.ts[1], line.ts[2])}
    ELSE IF Len(line.ts) = 8
    THEN {Stamp(TRUE, line.ts[1], line.ts[2], line.ts[3]),
          Stamp(TRUE, line.ts[5], line.ts[6], line.ts[7])}
    ELSE {}

\* C16: every time prefix printed, on every provider path, that of the AWS
\* speaker lines included, has a minutes field in 0..59 and a seconds field in
\* 0..59, the hours being carried by an hours field of their own: a start time
\* of one hour or more is printed with a non-zero hours field and a minutes
\* field that does not exceed 59.
C16_MinutesBelowSixty ==
    \A i \in 1..Len(console) : \A stamp \in Stamps(console[i]) :
        /\ stamp.minutes \in 0..59
        /\ stamp.seconds \in 0..59
        /\ (handler = "aws_speakers" /\ chronological_segments[i].start_time >= 3600000) =>
               (stamp.hasHours /\ stamp.hours > 0)

\* The items that carry a text: those with an alternatives entry.
WithText(items) == SelectSeq(items, HasAlt)

IsWord(item) == ~IsPunct(item)

\* The contents of the punctuation items that stand between position i and the
\* next word, in file order, as one text.
RECURSIVE PunctuationAfter(_, _)
PunctuationAfter(items, i) ==
    IF i + 1 > Len(items) \/ IsWord(items[i + 1]) THEN <<>>
    ELSE items[i + 1].content \o PunctuationAfter(items, i + 1)

\* Every word's content in file order, each with the punctuation that follows it.
RECURSIVE WordsWithPunctuation(_, _)
WordsWithPunctuation(items, i) ==
    IF i > Len(items) THEN <<>>
    ELSE IF IsWord(items[i])
    THEN <<items[i].content \o PunctuationAfter(items, i)>> \o WordsWithPunctuation(items, i + 1)
    ELSE WordsWithPunctuation(items, i + 1)

SomeWordHasText(items) ==
    \E i \in 1..Len(items) : IsWord(items[i]) /\ HasAlt(items[i]) /\ items[i].content # <<>>

\* C17: when tiers 1 and 2 end with no segment and some word item has text, the
\* call succeeds with exactly one segment, of speaker "Speaker" and times 0.0 to
\* 0.0, whose text is the contents of the word items in file order joined by
\* single spaces (a word of empty content leaves no space behind), each
\* punctuation content appended without a space to the word before it, then
\* capitalized and terminated.
C17_FlatFallbackSegment ==
    (TierEmpty(1) /\ TierEmpty(2) /\ SomeWordHasText(payload.items)) =>
        /\ pc \in {"sort", "render", "done"} =>
               chronological_segments =
                   <<[speaker |-> "Speaker", start_time |-> 0, end_time |-> 0,
                      text |-> Terminate(Capitalize(JoinSpace(SplitWs(JoinSpace(
                                   WordsWithPunctuation(WithText(payload.items), 1))))))]>>
        /\ Returned =>
               /\ ret
               /\ Len(console) = 1
               /\ console[1].speaker = "Speaker"
               /\ console[1].text = chronological_segments[1].text

C17_Witness ==
    /\ Returned /\ ret /\ ByTier(3)
    /\ payload.segments = <<>>
    /\ Len(payload.items) = 3
    /\ IsWord(payload.items[1]) /\ IsPunct(payload.items[2]) /\ IsWord(payload.items[3])
    /\ chronological_segments[1].text = <<"H", "i", ".", " ", "a", ".">>

\* A word item in the time range of the segment.
ContainsWord(segment, items) ==
    \E i \in 1..Len(items) : IsWord(items[i]) /\ Timed(items[i]) /\ Within(items[i], segment)

FromSegment(out, segment) ==
    /\ out.speaker = segment.speaker_label
    /\ out.start_time = segment.start_time
    /\ out.end_time = segment.end_time

\* C18: each segment tier 1 produces comes from an input segment that contains at
\* least one word item, tier 1 produces no more segments than the input has, and
\* no segment produced by any tier has an empty text.
C18_NoEmptySegment ==
    /\ (Len(tiers) = 1 /\ ~tiers[1].raised /\ pc \in {"tier2", "sort"}) =>
           /\ Len(chronological_segments) <= Len(payload.segments)
           /\ \A i \in 1..Len(chronological_segments) :
                  \E k \in 1..Len(payload.segments) :
                      /\ FromSegment(chronological_segments[i], payload.segments[k])
                      /\ ContainsWord(payload.segments[k], payload.items)
    /\ \A i \in 1..Len(chronological_segments) : chronological_segments[i].text # <<>>

\* What the three tiers and the sort make of the items and segments: the sorted
\* segments, or failed when a tier raises.
Failed == [failed |-> TRUE, segs |-> <<>>]

Reconciled(items, segments) ==
    LET t1 == Tier1Segments(segments, 1, items)
        t2 == Tier2Segments(segments, 1, items, Tier2Start)
    IN  IF t1.raised THEN Failed
        ELSE IF t1.segs # <<>> THEN [failed |-> FALSE, segs |-> SortByStart(t1.segs)]
        ELSE IF t2.raised THEN Failed
        ELSE IF t2.segs # <<>> THEN [failed |-> FALSE, segs |-> SortByStart(t2.segs)]
        ELSE [failed |-> FALSE, segs |-> Tier3Segments(items)]

SomeItemWithoutAlternatives(items) == \E i \in 1..Len(items) : ~HasAlt(items[i])

\* C19: an item of the items list, word or punctuation, that has no alternatives
\* entry is skipped: the call does not fail because of it, and the segments are
\* those of the same payload with the item taken out.
C19_ItemWithoutAlternativesSkipped ==
    (Returned /\ handler = "aws_speakers" /\ SomeItemWithoutAlternatives(payload.items)) =>
        /\ outcome \notin {"key_error", "handler_error"}
        /\ chronological_segments = Reconciled(WithText(payload.items), payload.segments).segs
        /\ ret <=> chronological_segments # <<>>

\* A results mapping with transcripts that has no speaker_labels, or no items.
SimpleShape(p) ==
    /\ p.kind = "Dict" /\ ~IsAzure(p) /\ p.resultsKind = "dict"
    /\ p.transcripts # <<>>
    /\ (p.speakerLabels = "absent" \/ p.items = <<>>)

Pronunciations(items) == SelectSeq(items, IsWord)

\* "[HH:MM:SS.mmm - HH:MM:SS.mmm] <word>" for a pronunciation item
ItemLine(item) ==
    [ts |-> FormatHMS(TimeOrZero(item.start_time)) \o FormatHMS(TimeOrZero(item.end_time)),
     speaker |-> "",
     text |-> IF HasAlt(item) THEN item.content ELSE <<>>]

\* C20: an AWS payload whose results have transcripts but no speaker_labels, or
\* no items, goes to the simple handler and succeeds; with include_timestamps
\* off, or without items, the one line printed is transcripts[0].transcript; with
\* include_timestamps on and items, one line "[start - end] <word>" is printed
\* per pronunciation item; results with no transcripts and no items return False.
C20_SimplePathSucceeds ==
    /\ (Returned /\ SimpleShape(payload)) =>
           /\ invoked = <<"aws_simple">>
           /\ output_file \in {"none", "good"} => ret
           /\ (~include_timestamps \/ payload.items = <<>>) =>
                  console = <<[ts |-> <<>>, speaker |-> "",
                               text |-> payload.transcripts[1].transcript]>>
           /\ (include_timestamps /\ payload.items # <<>>) =>
                  /\ Len(console) = Len(Pronunciations(payload.items))
                  /\ \A i \in 1..Len(console) :
                         console[i] = ItemLine(Pronunciations(payload.items)[i])
    /\ (Returned /\ payload.kind = "Dict" /\ ~IsAzure(payload) /\ payload.resultsKind = "dict"
          /\ payload.transcripts = <<>> /\ payload.items = <<>>) => ret = FALSE

\* The messages of a client accepted in the window of one second that starts at a.
AcceptedIn(client_id, a) ==
    {i \in 1..Len(processed[client_id]) :
        a <= processed[client_id][i] /\ processed[client_id][i] < a + TicksPerSecond}

\* C21: process_message_with_rate_limit accepts (processes, and returns True
\* unless process_message raises) at most rate_limit messages of a client in any
\* window of one second; once rate_limit accepted messages lie within the last
\* second a further message of the client returns False, is not processed and is
\* not counted; the times kept for a client come from its own messages alone.
C21_RateLimitPerClient ==
    \A client_id \in Clients :
        /\ \A a \in 0..MaxTime : Cardinality(AcceptedIn(client_id, a)) <= rate_limit
        /\ last[client_id].called =>
               /\ last[client_id].full <=> last[client_id].ret = "False"
               /\ last[client_id].full =>
                      (~last[client_id].counted /\ ~last[client_id].handled)
               /\ last[client_id].ret \in {"True", "raised"} =>
                      (last[client_id].counted /\ last[client_id].handled)
        /\ client_message_times[client_id]
               = KeepRecent(processed[client_id], last[client_id].time)

C21_Witness ==
    /\ last["c1"].called /\ last["c1"].ret = "False" /\ last["c1"].time = now
    /\ Len(client_message_times["c1"]) = rate_limit
    /\ last["c2"].called /\ last["c2"].ret = "True" /\ last["c2"].time = now
    /\ now > 0

\* A word item whose interval lies in that of the segment, bounds included.
Contained(item, segment) ==
    /\ IsWord(item)
    /\ item.start_time # NoTime /\ item.end_time # NoTime
    /\ Within(item, segment)

ContainedItems(items, segment) ==
    SortByStart(SelectSeq(items, LAMBDA item : Contained(item, segment)))

\* The segments of tier 1 if a segment took exactly the word items it contains.
RECURSIVE SegmentsOfContainedWords(_, _)
SegmentsOfContainedWords(segments, items) ==
    IF segments = <<>> THEN <<>>
    ELSE LET segment == Head(segments)
             t == Tier1Elements(items, ContainedItems(items, segment), 1)
             rest == SegmentsOfContainedWords(Tail(segments), items)
         IN  IF t.elems # <<>>
             THEN <<[speaker |-> segment.speaker_label, text |-> FormatText(t.elems),
                     start_time |-> segment.start_time,
                     end_time |-> segment.end_time]>> \o rest
             ELSE rest

\* C22: the text tier 1 gives a diarization segment holds a word item if and only
\* if segment.start <= item.start and item.end <= segment.end, the words in
\* ascending start time; a word contained in two segments is in both texts, a
\* word contained in none is in no text.
C22_WordsByContainment ==
    (Len(tiers) = 1 /\ ~tiers[1].raised /\ pc \in {"tier2", "sort"}) =>
        chronological_segments = SegmentsOfContainedWords(payload.segments, payload.items)

WellFormed(text) ==
    /\ text # <<>>
    /\ text[1] = Upper(text[1])
    /\ \A i \in 1..Len(text) - 1 : ~(text[i] \in Whitespace /\ text[i + 1] \in Whitespace)
    /\ text[Len(text)] \in Terminators

\* C23: every segment text of the three tiers starts with its first character
\* uppercased, has no run of two or more whitespace characters and ends with one
\* of . ! ? , ; : - (a period being appended to a text that does not).
C23_SegmentTextWellFormed ==
    \A i \in 1..Len(chronological_segments) : WellFormed(chronological_segments[i].text)

\* A maximal run a..b of consecutive diarization segments with one speaker label.
MaximalRun(segments, a, b) ==
    /\ a <= b
    /\ \A k \in a..b : segments[k].speaker_label = segments[a].speaker_label
    /\ a = 1 \/ segments[a - 1].speaker_label # segments[a].speaker_label
    /\ b = Len(segments) \/ segments[b + 1].speaker_label # segments[a].speaker_label

\* The words the segments a..b match, in the order tier 2 meets them.
RECURSIVE RunElements(_, _, _, _, _)
RunElements(items, segments, a, b, cur) ==
    IF a > b THEN cur
    ELSE RunElements(items, segments, a + 1, b, Tier2Items(items, 1, segments[a], cur).elems)

CoversRun(segment, segments, items, a, b) ==
    /\ MaximalRun(segments, a, b)
    /\ segment.speaker = segments[a].speaker_label
    /\ segment.text = FormatText(RunElements(items, segments, a, b, <<>>))
    /\ segment.start_time = segments[a].start_time
    /\ segment.end_time = segments[b].end_time

Tier2Produced == Len(tiers) = 2 /\ ~tiers[2].raised /\ pc = "sort"

\* C24: each segment of tier 2 covers one maximal run of consecutive diarization
\* segments with the same speaker label: it has that label, the words the run's
\* segments match, the start_time of the run's first segment and the end_time of
\* its last.
C24_Tier2SegmentPerRun ==
    Tier2Produced =>
        \A i \in 1..Len(chronological_segments) :
            \E a \in 1..Len(payload.segments), b \in 1..Len(payload.segments) :
                CoversRun(chronological_segments[i], payload.segments, payload.items, a, b)

IsList(data) == data.resultsKind = "list" /\ data.gcp # <<>>

HasTranscripts(data) == data.resultsKind = "dict" /\ data.transcripts # <<>>

\* C25: process_transcription_data returns, for a payload whose results is a
\* non-empty list, the first-alternative transcripts of the results joined by
\* single spaces, and for a payload with results.transcripts the transcript of
\* results.transcripts[0].
C25_BackendTranscript ==
    result.returned =>
        /\ IsList(payload) => result.transcript = JoinSpace(FirstTranscripts(payload.gcp))
        /\ HasTranscripts(payload) => result.transcript = payload.transcripts[1].transcript

\* C26: whenever process_transcription_result returns True it has emitted at
\* least one transcript line, and the output file, if one was given, holds at
\* least one line; a classified payload nothing can be extracted from, such as a
\* simple AWS payload read with timestamps whose items hold no pronunciation,
\* returns False.
C26_TrueMeansSomeLine ==
    (Returned /\ ret) =>
        /\ console # <<>>
        /\ output_file # "none" => file.lines # <<>>

Occurrences(c, text) == Cardinality({i \in 1..Len(text) : text[i] = c})

\* The punctuation items whose content is the character c.
PunctuationItems(c, items) ==
    Cardinality({i \in 1..Len(items) :
                    IsPunct(items[i]) /\ HasAlt(items[i]) /\ items[i].content = <<c>>})

\* A final period that may be the appended one: it follows a character that is
\* not a terminator.
ClosingPeriod(text) ==
    Len(text) > 1 /\ text[Len(text)] = "." /\ text[Len(text) - 1] \notin Terminators

\* C27: in the text of one output segment, of whichever tier, the content of a
\* punctuation item is attached once: the text holds a punctuation character at
\* most as many times as there are punctuation items with that content, the
\* closing period aside (no "Hi..").
C27_PunctuationAttachedOnce ==
    \A i \in 1..Len(chronological_segments) : \A c \in Terminators :
        LET text == chronological_segments[i].text
        IN  Occurrences(c, text) <=
                PunctuationItems(c, payload.items)
                    + (IF c = "." /\ ClosingPeriod(text) THEN 1 ELSE 0)

TimedPunctuation(items) ==
    {i \in 1..Len(items) :
        IsPunct(items[i]) /\ items[i].start_time # NoTime /\ items[i].end_time # NoTime}

\* C28: when tier 1 yields zero segments and no punctuation item carries both a
\* start_time and an end_time, tier 2 yields zero segments too; a segment of tier
\* 2 comes from a punctuation item with timing that lies in a diarization segment.
C28_Tier2OnlyFromTimedPunctuation ==
    Len(tiers) >= 2 =>
        /\ TimedPunctuation(payload.items) = {} =>
               (~tiers[2].raised /\ tiers[2].produced = 0)
        /\ tiers[2].produced > 0 =>
               \E i \in TimedPunctuation(payload.items), k \in 1..Len(payload.segments) :
                   Within(payload.items[i], payload.segments[k]) /\ HasAlt(payload.items[i])

C28_Witness ==
    /\ Returned /\ ret
    /\ Len(tiers) = 3 /\ tiers[3].produced > 0
    /\ payload.segments # <<>>
    /\ TimedPunctuation(payload.items) = {}
    /\ \E i \in 1..Len(payload.items) :
           IsWord(payload.items[i]) /\ Within(payload.items[i], payload.segments[1])

\* content is a stretch of text, letter case aside
Occurs(content, text) ==
    \E j \in 1..(Len(text) - Len(content) + 1) :
        \A k \in 1..Len(content) : Upper(text[j + k - 1]) = Upper(content[k])

RecognizedWords(items) ==
    {i \in 1..Len(items) : IsWord(items[i]) /\ HasAlt(items[i]) /\ items[i].content # <<>>}

\* C29: when the speaker handler succeeds, every non-punctuation item that has an
\* alternative with non-empty content appears in the text of at least one
\* rendered segment, also a word that lies outside every diarization segment.
C29_NoWordDropped ==
    (Returned /\ ret /\ handler = "aws_speakers") =>
        \A i \in RecognizedWords(payload.items) :
            \E l \in 1..Len(console) : Occurs(payload.items[i].content, console[l].text)

\* C30: once handle_websocket_streaming has ended for a client, on a "stop"
\* message, a WebSocketDisconnect or any other exception, the client is in
\* neither active_connections nor transcribers; and the two maps have the same
\* keys after any sequence of connect, disconnect and send_message_safe calls.
C30_CleanupOnTermination ==
    /\ \A client_id \in Clients :
           streaming[client_id] = "ended" =>
               client_id \notin active_connections \cup transcribers
    /\ active_connections = transcribers

====
